---- MODULE Spec2Model ----
(***************************************************************************)
(* rusty-git: content-addressable object store, object / index codecs,     *)
(* ref resolution and the add / commit commands, modelled from the Rust    *)
(* sources.  Byte strings are sequences of naturals 0..255.                *)
(***************************************************************************)
EXTENDS Integers, Sequences, FiniteSets, TLC

VARIABLES
    marker,     \* TRUE iff <worktree>/.rusty-git-allowed exists
    worktree,   \* file name -> NoFile or [exists, bytes, ctime]
    objects,    \* <<2 hex, 38 hex>> -> the file .git/objects/<2 hex>/<38 hex>
    objdirs,    \* the existing .git/objects/<2 hex> directories
    index,      \* NoFile or the file .git/index
    refs,       \* path under .git -> NoFile or the ref file
    clock,      \* the number of writes made to the worktree so far
    ncommits,   \* the number of commit objects created so far
    ret,        \* the last step: what it was given and what it returned
    cin,        \* codec harness: the input under test
    cout        \* codec harness: the result of the function applied to cin

vars == <<marker, worktree, objects, objdirs, index, refs, clock, ncommits, ret, cin, cout>>

repoVars == <<marker, worktree, objects, objdirs, index, refs, clock, ncommits, ret>>

codecVars == <<cin, cout>>

-----------------------------------------------------------------------------
(* Bytes and byte strings                                                  *)

SP == 32

TAB == 9

LF == 10

NUL == 0

Take(s, n) == SubSeq(s, 1, n)

Drop(s, n) == SubSeq(s, n + 1, Len(s))

StartsWith(s, t) == Len(s) >= Len(t) /\ SubSeq(s, 1, Len(t)) = t

MinOf(S) == CHOOSE x \in S : \A y \in S : x <= y

\* length of the longest prefix of s made of bytes in S
SpanIn(s, S) ==
    LET bad == {i \in 1..Len(s) : s[i] \notin S}
    IN  IF bad = {} THEN Len(s) ELSE MinOf(bad) - 1

\* length of the longest prefix of s made of bytes not in S
SpanNotIn(s, S) ==
    LET hit == {i \in 1..Len(s) : s[i] \in S}
    IN  IF hit = {} THEN Len(s) ELSE MinOf(hit) - 1

RECURSIVE Concat(_)
Concat(ss) == IF ss = <<>> THEN <<>> ELSE Head(ss) \o Concat(Tail(ss))

\* byte-wise lexicographic order, as Ord for str / [u8]
RECURSIVE LexLess(_, _)
LexLess(a, b) ==
    IF b = <<>> THEN FALSE
    ELSE IF a = <<>> THEN TRUE
    ELSE IF a[1] # b[1] THEN a[1] < b[1]
    ELSE LexLess(Tail(a), Tail(b))

\* std::str::from_utf8 accepts exactly the well-formed UTF-8 byte sequences
RECURSIVE IsUtf8(_)
IsUtf8(s) ==
    IF s = <<>> THEN TRUE
    ELSE LET b == s[1]
             cont(i, lo, hi) == Len(s) >= i /\ s[i] >= lo /\ s[i] <= hi
         IN  IF b < 128 THEN IsUtf8(Tail(s))
             ELSE IF b >= 194 /\ b <= 223
                  THEN cont(2, 128, 191) /\ IsUtf8(Drop(s, 2))
             ELSE IF b >= 224 /\ b <= 239
                  THEN /\ cont(2, IF b = 224 THEN 160 ELSE 128,
                                  IF b = 237 THEN 159 ELSE 191)
                       /\ cont(3, 128, 191)
                       /\ IsUtf8(Drop(s, 3))
             ELSE IF b >= 240 /\ b <= 244
                  THEN /\ cont(2, IF b = 240 THEN 144 ELSE 128,
                                  IF b = 244 THEN 143 ELSE 191)
                       /\ cont(3, 128, 191)
                       /\ cont(4, 128, 191)
                       /\ IsUtf8(Drop(s, 4))
             ELSE FALSE

Digits == 48..57

\* usize::to_string
RECURSIVE ToDecimal(_)
ToDecimal(n) ==
    IF n < 10 THEN <<48 + n>> ELSE ToDecimal(n \div 10) \o <<48 + (n % 10)>>

RECURSIVE DigitsValue(_)
DigitsValue(s) ==
    IF s = <<>> THEN 0 ELSE DigitsValue(Take(s, Len(s) - 1)) * 10 + (s[Len(s)] - 48)

\* str::parse::<usize>: an optional '+', then one or more decimal digits.
\* -1 stands for Err(ParseIntError).  MaxDigits keeps the value in range.
MaxDigits == 6

ParseUsize(s) ==
    LET d == IF s # <<>> /\ s[1] = 43 THEN Tail(s) ELSE s
    IN  IF d = <<>> \/ Len(d) > MaxDigits \/ \E i \in 1..Len(d) : d[i] \notin Digits
        THEN -1
        ELSE DigitsValue(d)

-----------------------------------------------------------------------------
(* Results                                                                 *)

Ok(v) == [ok |-> TRUE, val |-> v, err |-> "none"]

Err(e) == [ok |-> FALSE, val |-> <<>>, err |-> e]

\* nom IResult: Ok((rest, val)), Err::Error (recoverable) or Err::Failure
NomOk(v, rest) == [ok |-> TRUE, val |-> v, rest |-> rest, failure |-> FALSE]

NomError(rest) == [ok |-> FALSE, val |-> <<>>, rest |-> rest, failure |-> FALSE]

generic_nom_failure(rest) == [ok |-> FALSE, val |-> <<>>, rest |-> rest, failure |-> TRUE]

\* `let v = ...;`: the value is computed once and named in what follows
With(v, K(_)) == K(v)

-----------------------------------------------------------------------------
(* nom combinators used by the parsers (complete variants)                 *)

tag(t, input) ==
    IF StartsWith(input, t) THEN NomOk(t, Drop(input, Len(t))) ELSE NomError(input)

take(n, input) ==
    IF Len(input) >= n THEN NomOk(Take(input, n), Drop(input, n)) ELSE NomError(input)

is_not(S, input) ==
    LET n == SpanNotIn(input, S)
    IN  IF n = 0 THEN NomError(input) ELSE NomOk(Take(input, n), Drop(input, n))

is_a(S, input) ==
    LET n == SpanIn(input, S)
    IN  IF n = 0 THEN NomError(input) ELSE NomOk(Take(input, n), Drop(input, n))

take_till1(S, input) == is_not(S, input)

take_while1(S, input) == is_a(S, input)

space0(input) ==
    LET n == SpanIn(input, {SP, TAB}) IN NomOk(Take(input, n), Drop(input, n))

space1(input) == is_a({SP, TAB}, input)

-----------------------------------------------------------------------------
(* Object codec: blob, tree, commit and the shared envelope                *)

STR_blob == <<98, 108, 111, 98>>

STR_tree == <<116, 114, 101, 101>>

STR_commit == <<99, 111, 109, 109, 105, 116>>

ShaLen == 20

\* Blob::new
BlobNew(contents) == [typ |-> "blob", contents |-> contents, len |-> Len(contents)]

\* impl AsBytes for Blob
BlobAsBytes(blob) ==
    STR_blob \o <<SP>> \o ToDecimal(blob.len) \o <<NUL>> \o blob.contents

\* impl AsBytes for TreeLeaf
TreeLeafAsBytes(leaf) == leaf.mode \o <<SP>> \o leaf.path \o <<NUL>> \o leaf.sha

TreeBody(tree) ==
    Concat([i \in 1..Len(tree.contents) |-> TreeLeafAsBytes(tree.contents[i])])

\* impl AsBytes for Tree
TreeAsBytes(tree) ==
    LET body == TreeBody(tree)
    IN  STR_tree \o <<SP>> \o ToDecimal(Len(body)) \o <<NUL>> \o body

parse_git_tree_leaf(input) ==
    LET m == is_not({SP}, input)
        s == space1(m.rest)
        p == take_till1({NUL}, s.rest)
        z == tag(<<NUL>>, p.rest)
        h == take(ShaLen, z.rest)
    IN  IF ~m.ok THEN NomError(input)
        ELSE IF ~s.ok THEN NomError(m.rest)
        ELSE IF ~p.ok THEN NomError(s.rest)
        ELSE IF ~z.ok THEN NomError(p.rest)
        ELSE IF ~h.ok THEN NomError(z.rest)
        ELSE NomOk([mode |-> m.val, path |-> p.val, sha |-> h.val], h.rest)

\* the loop of nom's many0 / many1 around parse_git_tree_leaf
RECURSIVE many_tree_leaf(_, _)
many_tree_leaf(input, acc) ==
    LET r == parse_git_tree_leaf(input)
    IN  IF ~r.ok THEN NomOk(acc, input)
        ELSE IF Len(r.rest) = Len(input) THEN NomError(input)
        ELSE many_tree_leaf(r.rest, Append(acc, r.val))

\* many1: at least one leaf
many1_tree_leaf(input) ==
    With(many_tree_leaf(input, <<>>), LAMBDA all :
        IF ~all.ok \/ all.val = <<>> THEN NomError(input) ELSE all)

parse_git_tree(input) ==
    With(many1_tree_leaf(input), LAMBDA r :
        IF ~r.ok THEN Err("Nom")
        ELSE IF \E i \in 1..Len(r.val) : ~IsUtf8(r.val[i].mode) \/ ~IsUtf8(r.val[i].path)
        THEN Err("Utf8Conversion")
        ELSE Ok([typ |-> "tree", contents |-> r.val]))

\* HashMap::insert over the parsed pairs, in order: the last value of a key wins
RECURSIVE HashMapOf(_)
HashMapOf(pairs) ==
    IF pairs = <<>> THEN <<>>
    ELSE LET n    == Len(pairs)
             m    == HashMapOf(Take(pairs, n - 1))
             k    == pairs[n][1]
         IN  [x \in DOMAIN m \cup {k} |-> IF x = k THEN pairs[n][2] ELSE m[x]]

\* commit_body_as_bytes
RECURSIVE commit_lines(_, _)
commit_lines(kvs_order, kvs) ==
    IF kvs_order = <<>> THEN <<>>
    ELSE LET k == Head(kvs_order)
         IN  (IF k \in DOMAIN kvs THEN k \o <<SP>> \o kvs[k] \o <<LF>> ELSE <<>>)
             \o commit_lines(Tail(kvs_order), kvs)

commit_body_as_bytes(commit) ==
    commit_lines(commit.kvs_order, commit.kvs) \o <<LF>> \o commit.msg

\* impl AsBytes for Commit
CommitAsBytes(commit) ==
    LET body == commit_body_as_bytes(commit)
    IN  STR_commit \o <<SP>> \o ToDecimal(Len(body)) \o <<NUL>> \o body

parse_kv_pair(input) ==
    LET k == is_not({SP, TAB, 13, LF}, input)
        s == space1(k.rest)
        v == take_till1({LF}, s.rest)
        n == take(1, v.rest)
    IN  IF ~k.ok THEN NomError(input)
        ELSE IF ~s.ok THEN NomError(k.rest)
        ELSE IF ~v.ok THEN NomError(s.rest)
        ELSE IF ~n.ok THEN NomError(v.rest)
        ELSE NomOk(<<k.val, v.val>>, n.rest)

RECURSIVE many_kv_pair(_, _)
many_kv_pair(input, acc) ==
    LET r == parse_kv_pair(input)
    IN  IF ~r.ok THEN NomOk(acc, input)
        ELSE IF Len(r.rest) = Len(input) THEN NomError(input)
        ELSE many_kv_pair(r.rest, Append(acc, r.val))

\* many1(parse_kv_pair), then the keys in order and the HashMap
parse_kv_pairs(input) ==
    With(many_kv_pair(input, <<>>), LAMBDA all :
        IF ~all.ok \/ all.val = <<>> THEN NomError(input)
        ELSE NomOk([kvs_order |-> [i \in 1..Len(all.val) |-> all.val[i][1]],
                    kvs |-> HashMapOf(all.val)], all.rest))

parse_seperator_line(input) ==
    LET s == space0(input)
        n == take_while1({LF}, s.rest)
    IN  IF ~n.ok THEN NomError(s.rest) ELSE NomOk(n.val, n.rest)

kv_list_msg_after(p, sha) ==
    With(parse_seperator_line(p.rest), LAMBDA s :
        IF ~s.ok THEN Err("Nom")
        ELSE Ok([typ |-> "commit", kvs |-> p.val.kvs, kvs_order |-> p.val.kvs_order,
                 msg |-> s.rest, sha |-> sha]))

parse_kv_list_msg(input, sha) ==
    With(parse_kv_pairs(input), LAMBDA p :
        IF ~p.ok THEN Err("Nom") ELSE kv_list_msg_after(p, sha))

parse_obj_len(input) ==
    LET s == space1(input)
        d == take_till1({NUL}, s.rest)
        z == tag(<<NUL>>, d.rest)
    IN  IF ~s.ok THEN NomError(input)
        ELSE IF ~d.ok THEN NomError(s.rest)
        ELSE IF ~z.ok THEN NomError(d.rest)
        ELSE IF ~IsUtf8(d.val) THEN generic_nom_failure(z.rest)
        ELSE IF ParseUsize(d.val) < 0 THEN generic_nom_failure(z.rest)
        ELSE NomOk(ParseUsize(d.val), z.rest)

LenMismatchSkipped(len, contents) == FALSE

\* the declared-length check of parse_git_obj
LenMismatch(len, contents) == len # Len(contents)

\* alt((tag("blob"), tag("commit"), tag("tree")))
alt_obj_word(input) ==
    IF StartsWith(input, STR_blob) THEN tag(STR_blob, input)
    ELSE IF StartsWith(input, STR_commit) THEN tag(STR_commit, input)
    ELSE tag(STR_tree, input)

\* parse_git_obj from the length check on: word is the type word, l the
\* result of parse_obj_len
git_obj_of(word, l, sha) ==
    IF ~l.ok THEN Err("Nom")
    ELSE IF LenMismatch(l.val, l.rest) THEN Err("GitMalformedObject")
    ELSE IF word = STR_blob THEN Ok(BlobNew(l.rest))
    ELSE IF word = STR_tree THEN parse_git_tree(l.rest)
    ELSE parse_kv_list_msg(l.rest, sha)

parse_git_obj(input, sha) ==
    With(alt_obj_word(input), LAMBDA o :
        IF ~o.ok THEN Err("Nom") ELSE git_obj_of(o.val, parse_obj_len(o.rest), sha))

\* the match on the GitObj variant at the top of write_object
ObjAsBytes(obj) ==
    IF obj.typ = "blob" THEN BlobAsBytes(obj)
    ELSE IF obj.typ = "tree" THEN TreeAsBytes(obj)
    ELSE CommitAsBytes(obj)

-----------------------------------------------------------------------------
(* Digest, hex and zlib                                                    *)

\* sum over i in lo..hi of weight(i) * (s[i] + bias) modulo m, by halves
RECURSIVE WeightedSum(_, _, _, _, _, _)
WeightedSum(s, lo, hi, kind, bias, m) ==
    IF lo > hi THEN 0
    ELSE IF lo = hi
    THEN LET weight == IF kind = "one" THEN 1
                       ELSE IF kind = "index" THEN lo
                       ELSE IF kind = "square" THEN ((lo * lo) % 8191) + 1
                       ELSE Len(s) - lo + 1
         IN  (weight * (s[lo] + bias)) % m
    ELSE LET mid == (lo + hi) \div 2
         IN  (WeightedSum(s, lo, mid, kind, bias, m)
                 + WeightedSum(s, mid + 1, hi, kind, bias, m)) % m

\* sha1::Sha1::new().update(bytes).digest().bytes(): a 160-bit digest of the
\* whole byte string (two position-weighted checksums and the length, spread
\* over ShaLen bytes; distinct inputs of the model get distinct digests)
Sha1(bytes) ==
    LET h1 == WeightedSum(bytes, 1, Len(bytes), "index", 1, 65521)
        h2 == WeightedSum(bytes, 1, Len(bytes), "square", 1, 65519)
    IN  [i \in 1..ShaLen |->
            IF i = 1 THEN h1 \div 256
            ELSE IF i = 2 THEN h1 % 256
            ELSE IF i = 3 THEN h2 \div 256
            ELSE IF i = 4 THEN h2 % 256
            ELSE IF i = 5 THEN Len(bytes) % 256
            ELSE (h1 + i * h2) % 256]

HexDigit(n) == IF n < 10 THEN 48 + n ELSE 87 + n

\* Digest::to_string / get_sha_from_binary: lower-case hex, two digits per byte
ToHex(bytes) ==
    [i \in 1..(2 * Len(bytes)) |->
        IF i % 2 = 1 THEN HexDigit(bytes[(i + 1) \div 2] \div 16)
        ELSE HexDigit(bytes[i \div 2] % 16)]

\* the Adler-32 trailer of a zlib stream, high half first
Adler32(bytes) ==
    LET n == Len(bytes)
        x == (1 + WeightedSum(bytes, 1, n, "one", 0, 65521)) % 65521
        y == (n + WeightedSum(bytes, 1, n, "back", 0, 65521)) % 65521
    IN  <<y \div 256, y % 256, x \div 256, x % 256>>

\* ZlibEncoder::write_all + finish: a zlib stream holding the bytes (header,
\* one final stored block with LEN / NLEN, the data, the Adler-32 trailer)
ZlibEncode(bytes) ==
    LET n == Len(bytes)
    IN  <<120, 1, 1, n % 256, n \div 256, 255 - (n % 256), 255 - (n \div 256)>>
        \o bytes \o Adler32(bytes)

\* inflate_bytes_zlib: Err on a stream that is cut short or does not check
ZlibDecode(stream) ==
    LET n    == stream[4] + 256 * stream[5]
        data == SubSeq(stream, 8, 7 + n)
    IN  IF Len(stream) < 11 THEN Err("InflatingGitObj")
        ELSE IF Take(stream, 3) # <<120, 1, 1>> THEN Err("InflatingGitObj")
        ELSE IF stream[6] # 255 - stream[4] \/ stream[7] # 255 - stream[5]
        THEN Err("InflatingGitObj")
        ELSE IF Len(stream) # n + 11 THEN Err("InflatingGitObj")
        ELSE IF Drop(stream, 7 + n) # Adler32(data) THEN Err("InflatingGitObj")
        ELSE Ok(data)

-----------------------------------------------------------------------------
(* Index codec                                                             *)

STR_DIRC == <<68, 73, 82, 67>>

\* u32 values are kept in 32 bits: 2^31 .. 2^32-1 are held as v - 2^32
U32(b) ==
    (IF b[1] < 128 THEN b[1] ELSE b[1] - 256) * 16777216
        + b[2] * 65536 + b[3] * 256 + b[4]

\* u32::to_be_bytes
BE32(v) ==
    LET hi == IF v >= 0 THEN v \div 16777216 ELSE 256 + (v \div 16777216)
        lo == v - (IF v >= 0 THEN hi ELSE hi - 256) * 16777216
    IN  <<hi, lo \div 65536, (lo \div 256) % 256, lo % 256>>

U16(b) == b[1] * 256 + b[2]

\* u16::to_be_bytes
BE16(v) == <<v \div 256, v % 256>>

\* Utc.timestamp_opt(secs, nanos).single() is None from two seconds of nanos on
TimestampOk(nanos) == nanos >= 0 /\ nanos < 2000000000

\* `self.name.len() as u16`
NameSize(n) == n % 65536

EntryFixedLen == 62

\* `8 - entry_length % 8` with entry_length = 62 + name_size
EntryPadding(name_size) == 8 - ((EntryFixedLen + name_size) % 8)

\* impl AsBytes for IndexEntry
IndexEntryAsBytes(e) ==
    LET name_size == NameSize(Len(e.name))
    IN  BE32(e.c_time[1]) \o BE32(e.c_time[2]) \o BE32(e.m_time[1]) \o BE32(e.m_time[2])
        \o BE32(e.dev) \o BE32(e.inode) \o BE32(e.mode) \o BE32(e.uid) \o BE32(e.gid)
        \o BE32(e.size) \o e.sha \o BE16(name_size) \o e.name
        \o [i \in 1..EntryPadding(name_size) |-> NUL]

parse_git_index_entry(input) ==
    LET w(i)      == U32(SubSeq(input, 4 * i - 3, 4 * i))
        name_size == U16(SubSeq(input, 61, 62))
        name      == SubSeq(input, 63, 62 + name_size)
        total     == EntryFixedLen + name_size + EntryPadding(name_size)
    IN  IF Len(input) < 8 THEN NomError(input)
        ELSE IF ~TimestampOk(w(2)) THEN NomError(input)
        ELSE IF Len(input) < 16 THEN NomError(input)
        ELSE IF ~TimestampOk(w(4)) THEN NomError(input)
        ELSE IF Len(input) < EntryFixedLen THEN NomError(input)
        ELSE IF Len(input) < EntryFixedLen + name_size THEN NomError(input)
        ELSE IF ~IsUtf8(name) THEN NomError(input)
        ELSE IF Len(input) < total THEN NomError(input)
        ELSE NomOk([c_time |-> <<w(1), w(2)>>, m_time |-> <<w(3), w(4)>>,
                    dev |-> w(5), inode |-> w(6), mode |-> w(7), uid |-> w(8),
                    gid |-> w(9), size |-> w(10),
                    sha |-> SubSeq(input, 41, 60), name |-> name],
                   Drop(input, total))

\* many0(parse_git_index_entry)
RECURSIVE many0_index_entry(_, _)
many0_index_entry(input, acc) ==
    LET r == parse_git_index_entry(input)
    IN  IF ~r.ok THEN NomOk(acc, input)
        ELSE IF Len(r.rest) = Len(input) THEN NomError(input)
        ELSE many0_index_entry(r.rest, Append(acc, r.val))

ErrWith(e, v) == [ok |-> FALSE, val |-> v, err |-> e]

IndexHeader(n) == STR_DIRC \o <<0, 0, 0, 2>> \o BE32(n)

EntriesAsBytes(entries) ==
    Concat([i \in 1..Len(entries) |-> IndexEntryAsBytes(entries[i])])

\* index.rs: impl AsBytes for Index (entries only)
IndexAsBytes(idx) ==
    LET index_contents == IndexHeader(Len(idx.entries)) \o EntriesAsBytes(idx.entries)
    IN  index_contents \o Sha1(index_contents)

\* index.rs: parse_git_index
parse_git_index(input) ==
    LET d == is_a({68, 73, 82, 67}, input)
        v == take(4, d.rest)
        n == take(4, v.rest)
        e == many0_index_entry(n.rest, <<>>)
    IN  IF ~d.ok THEN Err("Nom")
        ELSE IF ~v.ok THEN Err("Nom")
        ELSE IF U32(v.val) # 2 THEN ErrWith("GitUnrecognizedIndexVersion", U32(v.val))
        ELSE IF ~n.ok THEN Err("Nom")
        ELSE IF ~e.ok THEN Err("Nom")
        ELSE Ok([entries |-> e.val])

\* object_parsers.rs: impl ToBinary for Index (entries and extension region)
IndexToBinary(idx) ==
    LET index_contents == IndexHeader(Len(idx.entries)) \o EntriesAsBytes(idx.entries)
                              \o idx.extensions
    IN  index_contents \o Sha1(index_contents)

\* object_parsers.rs: parse_git_index; `input.len() - 20` underflows (a panic
\* in every build) when fewer than 20 bytes follow the entries
objp_parse_git_index(input) ==
    LET d == is_a({68, 73, 82, 67}, input)
        v == take(4, d.rest)
        n == take(4, v.rest)
        e == many0_index_entry(n.rest, <<>>)
    IN  IF ~d.ok THEN Err("Nom")
        ELSE IF ~v.ok THEN Err("Nom")
        ELSE IF U32(v.val) # 2 THEN ErrWith("GitUnrecognizedIndexVersion", U32(v.val))
        ELSE IF ~n.ok THEN Err("Nom")
        ELSE IF ~e.ok THEN Err("Nom")
        ELSE IF Len(e.rest) < ShaLen THEN Err("PANIC")
        ELSE Ok([entries |-> e.val, extensions |-> Take(e.rest, Len(e.rest) - ShaLen)])

\* Index::new
IndexNewEmpty(entry) == [entries |-> <<>>, extensions |-> <<>>]

IndexNew(entry) == [entries |-> <<entry>>, extensions |-> <<>>]

-----------------------------------------------------------------------------
(* Codec harness: each input is drawn once and one function is applied     *)

NoOutput == [fn |-> "none"]

TestSha == ToHex(Sha1(<<>>))

\* a 20-byte hash of NULs and one of spaces: the bytes the leaf parser looks for
ZeroSha == [i \in 1..ShaLen |-> NUL]

SpaceSha == [i \in 1..ShaLen |-> SP]

TypeWords == {STR_blob, STR_tree, STR_commit}

STR_git_file_contents == <<103, 105, 116, 32, 102, 105, 108, 101, 32, 99, 111, 110, 116, 101, 110, 116, 115>>

EnvelopeBodies ==
    { <<>>,
      <<104, 105>>,
      <<49, 32, 97>> \o <<NUL>> \o ZeroSha,
      <<97, 32, 98, 10, 10, 109>>,
      STR_git_file_contents }

DeclaredLens == {0, 2, 6, 12, 17, 24, 25}

Envelope(word, declared, body) == word \o <<SP>> \o ToDecimal(declared) \o <<NUL>> \o body

EnvelopeInputs ==
    [fn : {"parse_git_obj"}, word : TypeWords, declared : DeclaredLens, body : EnvelopeBodies]

HeaderKeys == {<<97>>, <<98>>}

HeaderValues == {<<120>>, <<121>>}

HeaderLines == HeaderKeys \X HeaderValues

MaxHeaderLines == 2

Messages == { <<>>, <<109>>, <<LF, 109>>, <<SP, 109>>, <<109, LF>> }

RECURSIVE SeqsUpTo(_, _)
SeqsUpTo(S, n) ==
    IF n = 0 THEN {<<>>}
    ELSE LET shorter == SeqsUpTo(S, n - 1)
         IN  shorter \cup {Append(q, x) : q \in {r \in shorter : Len(r) = n - 1}, x \in S}

\* a well-formed commit body: header lines, one blank line, the message
CommitBody(lines, msg) ==
    Concat([i \in 1..Len(lines) |-> lines[i][1] \o <<SP>> \o lines[i][2] \o <<LF>>])
        \o <<LF>> \o msg

CommitInputs ==
    [fn : {"commit_round_trip"},
     lines : SeqsUpTo(HeaderLines, MaxHeaderLines) \ {<<>>},
     msg : Messages]

LeafModes == {<<49, 48, 48, 54, 52, 52>>, <<52, 48, 48, 48, 48>>}

LeafPaths == {<<97>>, <<SP, 97>>, <<98, SP, 99>>}

TreeLeaves == [mode : LeafModes, path : LeafPaths, sha : {ZeroSha, SpaceSha}]

MaxLeaves == 2

TreeInputs == [fn : {"tree_round_trip"}, leaves : SeqsUpTo(TreeLeaves, MaxLeaves) \ {<<>>}]

\* parse_git_obj applied to an envelope with a chosen declared length
DecodeObj ==
    /\ cin.fn = "parse_git_obj"
    /\ cout = NoOutput
    /\ cout' = [fn |-> cin.fn,
                r  |-> parse_git_obj(Envelope(cin.word, cin.declared, cin.body), TestSha)]
    /\ UNCHANGED <<cin, repoVars>>

\* can_round_trip_commit: parse_git_obj, then Commit::as_bytes
CommitRoundTrip ==
    /\ cin.fn = "commit_round_trip"
    /\ cout = NoOutput
    /\ LET body  == CommitBody(cin.lines, cin.msg)
           bytes == Envelope(STR_commit, Len(body), body)
           r     == parse_git_obj(bytes, TestSha)
       IN  cout' = [fn |-> cin.fn, input |-> bytes, r |-> r,
                    bytes |-> IF r.ok THEN ObjAsBytes(r.val) ELSE <<>>]
    /\ UNCHANGED <<cin, repoVars>>

\* Tree::as_bytes, then parse_git_obj, then Tree::as_bytes again
TreeRoundTrip ==
    /\ cin.fn = "tree_round_trip"
    /\ cout = NoOutput
    /\ LET bytes == ObjAsBytes([typ |-> "tree", contents |-> cin.leaves])
           r     == parse_git_obj(bytes, TestSha)
       IN  cout' = [fn |-> cin.fn, input |-> bytes, r |-> r,
                    bytes |-> IF r.ok THEN ObjAsBytes(r.val) ELSE <<>>]
    /\ UNCHANGED <<cin, repoVars>>

\* an index entry as file_to_index_entry builds it, with fixed stat fields
FakeEntry(name, sha, time) ==
    [c_time |-> <<time, 0>>, m_time |-> <<time, 0>>, dev |-> 1, inode |-> 2,
     mode |-> 33188, uid |-> 501, gid |-> 20, size |-> 3, sha |-> sha, name |-> name]

STR_TREE == <<84, 82, 69, 69>>

\* an extension block: 4-byte signature, 32-bit size, data
Extension(sig, data) == sig \o BE32(Len(data)) \o data

LookalikeLen == 56

IndexExtensions ==
    { <<>>,
      Extension(STR_TREE, <<NUL, 49, SP, 48, LF>>),
      Extension(STR_TREE, [i \in 1..LookalikeLen |-> NUL]) }

IndexEntryLists ==
    { <<>>,
      <<FakeEntry(<<97>>, ZeroSha, 1)>>,
      <<FakeEntry(<<98>>, SpaceSha, 1)>>,
      <<FakeEntry(<<97>>, ZeroSha, 1), FakeEntry(<<98>>, SpaceSha, 2)>>,
      <<FakeEntry(<<97, 98>>, SpaceSha, 2)>> }

\* a well-formed version-2 index file: header, entries, extension region, digest
IndexInputs ==
    {[fn |-> "index_round_trip", count |-> Len(es), entries |-> es, ext |-> x,
      bytes |-> IndexToBinary([entries |-> es, extensions |-> x])]
        : es \in IndexEntryLists, x \in IndexExtensions}

SmallNameMax == 48

BigNameMin == 65470

BigNameMax == 65540

NameLens == (1..SmallNameMax) \cup (BigNameMin..BigNameMax)

PaddingInputs == [fn : {"entry_padding"}, n : NameLens]

\* index.rs: parse_git_index, then Index::as_bytes
IndexRoundTrip ==
    /\ cin.fn = "index_round_trip"
    /\ cout = NoOutput
    /\ LET r == parse_git_index(cin.bytes)
       IN  cout' = [fn |-> cin.fn, codec |-> "index.rs", r |-> r,
                    bytes |-> IF r.ok THEN IndexAsBytes(r.val) ELSE <<>>]
    /\ UNCHANGED <<cin, repoVars>>

\* object_parsers.rs: can_parse_index: parse_git_index, then Index::to_binary
ObjpIndexRoundTrip ==
    /\ cin.fn = "index_round_trip"
    /\ cout = NoOutput
    /\ LET r == objp_parse_git_index(cin.bytes)
       IN  cout' = [fn |-> cin.fn, codec |-> "object_parsers.rs", r |-> r,
                    bytes |-> IF r.ok THEN IndexToBinary(r.val) ELSE <<>>]
    /\ UNCHANGED <<cin, repoVars>>

\* `62 + name_size` is u16 arithmetic: past 65535 it panics in a build with
\* overflow checks and wraps in one without
EntryLengthOverflows(name_size) == EntryFixedLen + name_size > 65535

\* the length arithmetic of IndexEntry::as_bytes and parse_git_index_entry for
\* a name of cin.n bytes; overflow_checks is the build profile
EntryPaddingArithmetic ==
    /\ cin.fn = "entry_padding"
    /\ cout = NoOutput
    /\ \E overflow_checks \in BOOLEAN :
         LET name_size == NameSize(cin.n)
         IN  cout' = [fn |-> cin.fn,
                      name_size |-> name_size,
                      overflowed |-> EntryLengthOverflows(name_size),
                      panicked |-> overflow_checks /\ EntryLengthOverflows(name_size),
                      pad |-> EntryPadding(name_size),
                      written |-> EntryFixedLen + cin.n + EntryPadding(name_size),
                      dec_name |-> name_size,
                      dec_pad |-> EntryPadding(name_size)]
    /\ UNCHANGED <<cin, repoVars>>

-----------------------------------------------------------------------------
(* The repository on disk                                                  *)

NoFile == [exists |-> FALSE, bytes |-> <<>>, ctime |-> 0]

File(bytes, ctime) == [exists |-> TRUE, bytes |-> bytes, ctime |-> ctime]

STR_marker == <<46, 114, 117, 115, 116, 121, 45, 103, 105, 116, 45, 97, 108, 108, 111, 119, 101, 100>>

STR_dotgit == <<46, 103, 105, 116>>

STR_HEAD == <<72, 69, 65, 68>>

STR_master == <<114, 101, 102, 115, 47, 104, 101, 97, 100, 115, 47, 109, 97, 115, 116, 101, 114>>

STR_ref == <<114, 101, 102, 58, 32>>

\* the files " a" and "a"
FileNames == {<<SP, 97>>, <<97>>}

\* what the user writes: a file name and the new contents
WorktreeWrites ==
    { << <<SP, 97>>, <<120>> >>, << <<97>>, <<120>> >>, << <<97>>, <<121, LF>> >> }

MaxClock == 2

MaxCommits == 2

CommitMessages == {<<109>>}

RefPaths == {STR_HEAD, STR_master}

\* read_dir(repo.worktree): the names in the worktree root
WorktreeListing ==
    {f \in DOMAIN worktree : worktree[f].exists} \cup {STR_dotgit}
        \cup (IF marker THEN {STR_marker} ELSE {})

\* the record of a command: its name and argument, whether the marker was
\* there and a store handle was passed, the Result, the message printed or
\* returned, and for each write_object with a store the object, the hash
\* returned and whether the object file was already there
Returned(op, arg, had_marker, store, r, note, written) ==
    [op |-> op, arg |-> arg, marker |-> had_marker, store |-> store, r |-> r,
     note |-> note, written |-> written]

\* create_git_repo: the marker, empty object and ref directories, HEAD
InitRepo ==
    /\ marker = TRUE
    /\ worktree = [f \in FileNames |-> NoFile]
    /\ objects = <<>>
    /\ objdirs = {}
    /\ index = NoFile
    /\ refs = [p \in RefPaths |-> IF p = STR_HEAD THEN File(STR_ref \o STR_master \o <<LF>>, 0)
                                    ELSE NoFile]
    /\ clock = 0
    /\ ncommits = 0
    /\ ret = Returned("init", <<>>, TRUE, TRUE, Ok(<<>>), "none", <<>>)

git_check_for_rusty_git_allowed_off(listing) == Ok(TRUE)

git_check_for_rusty_git_allowed(listing) ==
    IF \E node_name \in listing : node_name = STR_marker
    THEN Ok(TRUE)
    ELSE Err("RustyGitAllowedFileMissing")

\* .git/objects/<hash[..2]>/<hash[2..]>
ObjPath(hash) == <<Take(hash, 2), Drop(hash, 2)>>

ObjPathExistsNever(path, objs) == FALSE

\* git_obj_path.exists()
ObjPathExists(path, objs) == path \in DOMAIN objs

\* an object file and the number of times File::create has run on its path
ObjFile(bytes, created) == [bytes |-> bytes, created |-> created]

FileCreateNone(path, bytes, objs) == objs

\* File::create(path) and the write: a new file, or the old one truncated
FileCreate(path, bytes, objs) ==
    [q \in DOMAIN objs \cup {path} |->
        IF q # path THEN objs[q]
        ELSE ObjFile(bytes, IF path \in DOMAIN objs THEN objs[path].created + 1 ELSE 1)]

\* write_object.  With a repo: the marker check, create the directory if
\* missing, write the compressed envelope unless the path exists.  The result
\* carries the object database as the call leaves it.
write_object_stores(obj, with_repo, objs, dirs) ==
    LET obj_bytes == ObjAsBytes(obj)
        digest    == Sha1(obj_bytes)
        path      == ObjPath(ToHex(digest))
        allowed   == git_check_for_rusty_git_allowed(WorktreeListing)
    IN  IF ~allowed.ok
        THEN [r |-> allowed, objects |-> objs, objdirs |-> dirs, stored |-> FALSE,
              existed |-> FALSE]
        ELSE [r |-> Ok(digest),
              objdirs |-> dirs \cup {path[1]},
              objects |->
                  IF ~ObjPathExists(path, objs)
                  THEN FileCreate(path, ZlibEncode(obj_bytes), objs)
                  ELSE objs,
              stored |-> with_repo,
              existed |-> path \in DOMAIN objs]

write_object(obj, with_repo, objs, dirs) ==
    LET obj_bytes == ObjAsBytes(obj)
        digest    == Sha1(obj_bytes)
        hash      == ToHex(digest)
        path      == ObjPath(hash)
        allowed   == git_check_for_rusty_git_allowed(WorktreeListing)
    IN  IF ~with_repo
        THEN [r |-> Ok(digest), objects |-> objs, objdirs |-> dirs, stored |-> FALSE,
              existed |-> FALSE]
        ELSE IF ~allowed.ok
        THEN [r |-> allowed, objects |-> objs, objdirs |-> dirs, stored |-> FALSE,
              existed |-> FALSE]
        ELSE [r |-> Ok(digest),
              objdirs |-> dirs \cup {path[1]},
              objects |->
                  IF ~ObjPathExists(path, objs)
                  THEN FileCreate(path, ZlibEncode(obj_bytes), objs)
                  ELSE objs,
              stored |-> TRUE,
              existed |-> path \in DOMAIN objs]

\* read_object: git_obj_path_from_sha, read, inflate, parse_git_obj
read_object(sha, objs) ==
    IF ObjPath(sha) \notin DOMAIN objs THEN Err("GitObjPathDoesntExist")
    ELSE With(ZlibDecode(objs[ObjPath(sha)].bytes), LAMBDA inflated :
             IF ~inflated.ok THEN Err("InflatingGitObj")
             ELSE parse_git_obj(inflated.val, sha))

\* str::trim on the ASCII text of a ref file
Whitespace == {SP, TAB, LF, 11, 12, 13}

RECURSIVE TrimStart(_)
TrimStart(s) == IF s # <<>> /\ s[1] \in Whitespace THEN TrimStart(Tail(s)) ELSE s

RECURSIVE TrimEnd(_)
TrimEnd(s) ==
    IF s # <<>> /\ s[Len(s)] \in Whitespace THEN TrimEnd(Take(s, Len(s) - 1)) ELSE s

TrimNone(s) == s

Trim(s) == TrimEnd(TrimStart(s))

parse_git_head(input) ==
    LET k == is_not({SP}, input)
        s == space1(k.rest)
        v == take_till1({LF}, s.rest)
    IN  IF ~k.ok \/ ~s.ok \/ ~v.ok THEN Err("Nom")
        ELSE IF ~IsUtf8(v.val) THEN Err("Utf8Conversion")
        ELSE Ok(v.val)

git_sha_from_head_none(rs) == Err("GitNoCommitsExistYet")

\* git_sha_from_head over the ref files rs
git_sha_from_head(rs) ==
    LET head_ref == parse_git_head(rs[STR_HEAD].bytes)
    IN  IF ~rs[STR_HEAD].exists THEN Err("IO")
        ELSE IF ~head_ref.ok THEN head_ref
        ELSE IF head_ref.val \in DOMAIN rs /\ rs[head_ref.val].exists
        THEN Ok(Trim(rs[head_ref.val].bytes))
        ELSE Err("GitNoCommitsExistYet")

\* file_to_index_entry: the stat of the file (ctime is used for both times)
\* and the hash of its blob, computed without a store
file_to_index_entry(file_name, file) ==
    [c_time |-> <<file.ctime, 0>>, m_time |-> <<file.ctime, 0>>, dev |-> 1, inode |-> 2,
     mode |-> 33188, uid |-> 501, gid |-> 20, size |-> Len(file.bytes),
     sha |-> Sha1(BlobAsBytes(BlobNew(file.bytes))), name |-> file_name]

\* impl Ord for IndexEntry: self.name.cmp(&other.name)
EntryCmp(a, b) ==
    IF a.name = b.name THEN "Equal" ELSE IF LexLess(a.name, b.name) THEN "Less" ELSE "Greater"

\* the loop of slice::binary_search
RECURSIVE binary_search_loop(_, _, _, _)
binary_search_loop(entries, entry, left, right) ==
    IF left >= right THEN [found |-> FALSE, pos |-> left]
    ELSE LET mid == left + ((right - left) \div 2)
             cmp == EntryCmp(entries[mid + 1], entry)
         IN  IF cmp = "Less" THEN binary_search_loop(entries, entry, mid + 1, right)
             ELSE IF cmp = "Greater" THEN binary_search_loop(entries, entry, left, mid)
             ELSE [found |-> TRUE, pos |-> mid]

binary_search_at_end(entries, entry) == [found |-> FALSE, pos |-> Len(entries)]

\* index.entries.binary_search(&entry): Ok(pos) or Err(pos), pos from 0
binary_search(entries, entry) == binary_search_loop(entries, entry, 0, Len(entries))

\* Vec::insert / Vec::remove, pos from 0
VecInsert(v, pos, x) == Take(v, pos) \o <<x>> \o Drop(v, pos)

VecRemoveFirst(v, pos) == Tail(v)

VecRemove(v, pos) == Take(v, pos) \o Drop(v, pos + 1)

\* add_entry_to_index on the parsed index
add_entry_to_index(idx, entry) ==
    LET found == binary_search(idx.entries, entry)
    IN  [idx EXCEPT !.entries =
            IF found.found
            THEN VecInsert(VecRemove(idx.entries, found.pos), found.pos, entry)
            ELSE VecInsert(idx.entries, found.pos, entry)]

STR_parent == <<112, 97, 114, 101, 110, 116>>

STR_author == <<97, 117, 116, 104, 111, 114>>

STR_committer == <<99, 111, 109, 109, 105, 116, 116, 101, 114>>

\* create_dummy_user, as the header value it is written as
DummyUser == <<110, 32, 60, 101, 62, 32, 48, 32, 43, 48, 48, 48, 48>>

\* entry_to_treeleaf: format!("{:o}", mode)
RECURSIVE ToOctal(_)
ToOctal(n) == IF n < 8 THEN <<48 + n>> ELSE ToOctal(n \div 8) \o <<48 + (n % 8)>>

entry_to_treeleaf(entry) ==
    [mode |-> ToOctal(entry.mode), path |-> entry.name, sha |-> entry.sha]

index_to_tree(idx) ==
    [typ |-> "tree",
     contents |-> [i \in 1..Len(idx.entries) |-> entry_to_treeleaf(idx.entries[i])]]

\* index_file_sha_pairs / NameSha for IndexEntry
index_file_sha_pairs(entries) ==
    {<<entries[i].name, ToHex(entries[i].sha)>> : i \in 1..Len(entries)}

SLASH == 47

\* Option<String>: the name prefix of a nested tree
NoPrefix == [some |-> FALSE, val |-> <<>>]

SomePrefix(p) == [some |-> TRUE, val |-> p]

\* NameSha for TreeLeaf: (prefix/path, hex hash), or (path, hex hash)
get_name_and_sha(path, sha, name_prefix) ==
    <<IF name_prefix.some THEN name_prefix.val \o <<SLASH>> \o path ELSE path, ToHex(sha)>>

\* tree_file_sha_pairs: nested_name_prefix
nested_name_prefix(name_prefix, path) ==
    IF name_prefix.some THEN SomePrefix(name_prefix.val \o <<SLASH>> \o path)
    ELSE SomePrefix(path)

\* the directories that PathBuf::from(path).is_dir() finds from the working
\* directory of the process: here the worktree root, whose files are plain
CwdDirs == {STR_dotgit}

RECURSIVE tree_pairs_from(_, _, _, _, _)
RECURSIVE nested_tree_pairs(_, _, _, _, _, _)
RECURSIVE after_nested_pairs(_, _, _, _, _, _)

\* tree_file_sha_pairs: the loop over tree.contents, acc is file_sha_pairs.
\* A leaf is taken for a nested tree when its path, as a path relative to the
\* working directory, is a directory there
tree_pairs_from(leaves, name_prefix, objs, dirs, acc) ==
    IF leaves = <<>> THEN Ok(acc)
    ELSE IF Head(leaves).path \in dirs
    THEN nested_tree_pairs(read_object(ToHex(Head(leaves).sha), objs),
                           leaves, name_prefix, objs, dirs, acc)
    ELSE tree_pairs_from(Tail(leaves), name_prefix, objs, dirs,
                         acc \cup {get_name_and_sha(Head(leaves).path, Head(leaves).sha,
                                                    name_prefix)})

\* tree_file_sha_pairs: the object of a directory leaf has been read
nested_tree_pairs(obj, leaves, name_prefix, objs, dirs, acc) ==
    IF ~obj.ok THEN obj
    ELSE IF obj.val.typ # "tree" THEN Err("GitLsTreeWrongObjType")
    ELSE after_nested_pairs(
             tree_pairs_from(obj.val.contents,
                             nested_name_prefix(name_prefix, Head(leaves).path),
                             objs, dirs, {}),
             leaves, name_prefix, objs, dirs, acc)

\* tree_file_sha_pairs: file_sha_pairs.extend(inner_tree_file_sha_pairs)
after_nested_pairs(inner, leaves, name_prefix, objs, dirs, acc) ==
    IF ~inner.ok THEN inner
    ELSE tree_pairs_from(Tail(leaves), name_prefix, objs, dirs, acc \cup inner.val)

tree_file_sha_pairs(tree, name_prefix, objs, dirs) ==
    tree_pairs_from(tree.contents, name_prefix, objs, dirs, {})

\* git_get_tree_from_commit: the object named by the commit's tree header
git_get_tree_from_commit(commit, objs) ==
    IF STR_tree \notin DOMAIN commit.kvs THEN Err("GitNoTreeKeyInCommit")
    ELSE With(read_object(commit.kvs[STR_tree], objs), LAMBDA tree :
             IF tree.ok /\ tree.val.typ # "tree" THEN Err("GitUnexpectedInternalType")
             ELSE tree)

\* staged_but_not_commited once the tree of the HEAD commit is known
staged_against_pairs(idx, committed) ==
    IF ~committed.ok THEN committed
    ELSE Ok(index_file_sha_pairs(idx.entries) \ committed.val)

staged_against_tree(idx, tree, objs) ==
    IF ~tree.ok THEN tree
    ELSE staged_against_pairs(idx, tree_file_sha_pairs(tree.val, NoPrefix, objs, CwdDirs))

\* staged_but_not_commited once the HEAD commit is read
staged_against_commit(idx, commit, objs) ==
    IF ~commit.ok THEN commit
    ELSE IF commit.val.typ # "commit" THEN Err("GitUnexpectedInternalType")
    ELSE staged_against_tree(idx, git_get_tree_from_commit(commit.val, objs), objs)

staged_against_head_strict(idx, head_sha, objs) ==
    IF ~head_sha.ok THEN Err(head_sha.err)
    ELSE staged_against_commit(idx, read_object(head_sha.val, objs), objs)

\* staged_but_not_commited once HEAD is looked up
staged_against_head(idx, head_sha, objs) ==
    IF ~head_sha.ok
    THEN IF head_sha.err = "GitNoCommitsExistYet"
         THEN Ok(index_file_sha_pairs(idx.entries))
         ELSE Err("PANIC")
    ELSE staged_against_commit(idx, read_object(head_sha.val, objs), objs)

\* staged_but_not_commited: the (name, hash) pairs of the index that the tree
\* of the HEAD commit lacks; empty exactly when the returned text is ""
staged_but_not_commited(idx, rs, objs) ==
    staged_against_head(idx, git_sha_from_head(rs), objs)

\* the Commit that cmd_mods/commit.rs builds, then calc_and_update_sha
NewCommit(tree_sha, parent, msg) ==
    LET pairs == <<<<STR_tree, tree_sha>>>>
                     \o (IF parent.ok THEN <<<<STR_parent, parent.val>>>> ELSE <<>>)
                     \o <<<<STR_author, DummyUser>>, <<STR_committer, DummyUser>>>>
        c     == [typ |-> "commit", kvs |-> HashMapOf(pairs),
                  kvs_order |-> [i \in 1..Len(pairs) |-> pairs[i][1]],
                  msg |-> msg, sha |-> <<>>]
    IN  [c EXCEPT !.sha = ToHex(Sha1(ObjAsBytes(c)))]

\* the loop of commit over tree.contents: blob_from_path, write_object
RECURSIVE write_blobs(_, _, _, _)
write_blobs(leaves, objs, dirs, written) ==
    IF leaves = <<>>
    THEN [r |-> Ok(<<>>), objects |-> objs, objdirs |-> dirs, written |-> written]
    ELSE LET file == worktree[Head(leaves).path]
             blob == BlobNew(file.bytes)
             w    == write_object(blob, TRUE, objs, dirs)
         IN  IF Head(leaves).path \notin DOMAIN worktree \/ ~file.exists
             THEN [r |-> Err("IO"), objects |-> objs, objdirs |-> dirs, written |-> written]
             ELSE IF ~w.r.ok
             THEN [r |-> w.r, objects |-> objs, objdirs |-> dirs, written |-> written]
             ELSE write_blobs(Tail(leaves), w.objects, w.objdirs,
                              Append(written, <<blob, ToHex(w.r.val), w.existed>>))

-----------------------------------------------------------------------------
(* Commands                                                                *)

IndexFile(bytes) == File(bytes, 0)

\* the user or an editor writes a file of the worktree
WriteFile(f, contents) ==
    /\ clock < MaxClock
    /\ clock' = clock + 1
    /\ worktree' = [worktree EXCEPT ![f] = File(contents, clock + 1)]
    /\ ret' = Returned("write_file", f, marker, FALSE, Ok(<<>>), "none", <<>>)
    /\ UNCHANGED <<marker, objects, objdirs, index, refs, ncommits, codecVars>>

\* the user deletes .rusty-git-allowed
RemoveMarker ==
    /\ marker
    /\ marker' = FALSE
    /\ ret' = Returned("remove_marker", <<>>, marker, FALSE, Ok(<<>>), "none", <<>>)
    /\ UNCHANGED <<worktree, objects, objdirs, index, refs, clock, ncommits, codecVars>>

\* the user puts .rusty-git-allowed back
CreateMarker ==
    /\ ~marker
    /\ marker' = TRUE
    /\ ret' = Returned("create_marker", <<>>, marker, FALSE, Ok(<<>>), "none", <<>>)
    /\ UNCHANGED <<worktree, objects, objdirs, index, refs, clock, ncommits, codecVars>>

\* commands.rs: hash_object(path, repo, write_object)
HashObject(f, with_repo) ==
    LET file == worktree[f]
        blob == BlobNew(file.bytes)
        w    == write_object(blob, with_repo, objects, objdirs)
    IN  /\ IF ~file.exists
           THEN /\ ret' = Returned("hash_object", f, marker, with_repo, Err("IO"), "none", <<>>)
                /\ UNCHANGED <<objects, objdirs>>
           ELSE /\ ret' = Returned("hash_object", f, marker, with_repo,
                                   IF w.r.ok THEN Ok(ToHex(w.r.val)) ELSE w.r, "none",
                                   IF w.stored THEN <<<<blob, ToHex(w.r.val), w.existed>>>>
                                   ELSE <<>>)
                /\ objects' = w.objects
                /\ objdirs' = w.objdirs
        /\ UNCHANGED <<marker, worktree, index, refs, clock, ncommits, codecVars>>

\* commands.rs: add(file_name, repo), with update_index / write_index of
\* cmd_mods/add.rs
Add(f) ==
    LET allowed == git_check_for_rusty_git_allowed(WorktreeListing)
        file    == worktree[f]
        blob    == BlobNew(file.bytes)
        w       == write_object(blob, TRUE, objects, objdirs)
        parsed  == objp_parse_git_index(index.bytes)
        entry   == file_to_index_entry(f, file)
        updated == IF index.exists THEN add_entry_to_index(parsed.val, entry)
                   ELSE IndexNew(entry)
        written == <<<<blob, ToHex(w.r.val), w.existed>>>>
    IN  /\ IF ~allowed.ok
           THEN /\ ret' = Returned("add", f, marker, TRUE, allowed, "none", <<>>)
                /\ UNCHANGED <<objects, objdirs, index>>
           ELSE IF ~file.exists
           THEN /\ ret' = Returned("add", f, marker, TRUE, Err("IO"), "none", <<>>)
                /\ UNCHANGED <<objects, objdirs, index>>
           ELSE IF ~w.r.ok
           THEN /\ ret' = Returned("add", f, marker, TRUE, w.r, "none", <<>>)
                /\ UNCHANGED <<objects, objdirs, index>>
           ELSE IF index.exists /\ ~parsed.ok
           THEN /\ ret' = Returned("add", f, marker, TRUE, Err(parsed.err), "none", written)
                /\ objects' = w.objects
                /\ objdirs' = w.objdirs
                /\ UNCHANGED index
           ELSE /\ ret' = Returned("add", f, marker, TRUE, Ok(<<>>),
                                   IF ~index.exists THEN "created"
                                   ELSE IF binary_search(parsed.val.entries, entry).found
                                   THEN "replaced" ELSE "inserted",
                                   written)
                /\ objects' = w.objects
                /\ objdirs' = w.objdirs
                /\ index' = IndexFile(IndexToBinary(updated))
        /\ UNCHANGED <<marker, worktree, refs, clock, ncommits, codecVars>>

CommitFails(msg, r, objs, dirs, written) ==
    /\ ret' = Returned("commit", msg, marker, TRUE, r, "none", written)
    /\ objects' = objs
    /\ objdirs' = dirs
    /\ UNCHANGED <<refs, ncommits>>

\* commit: the ref file named by HEAD is truncated and holds the new hash
CommitRef(msg, commit, written, wc, ref_path) ==
    IF ~wc.r.ok THEN CommitFails(msg, wc.r, wc.objects, wc.objdirs, written)
    ELSE IF ~ref_path.ok
    THEN CommitFails(msg, ref_path, wc.objects, wc.objdirs,
                     Append(written, <<commit, commit.sha, wc.existed>>))
    ELSE /\ ncommits < MaxCommits
         /\ ncommits' = ncommits + 1
         /\ ret' = Returned("commit", msg, marker, TRUE, Ok(<<>>), "none",
                            Append(written, <<commit, commit.sha, wc.existed>>))
         /\ objects' = wc.objects
         /\ objdirs' = wc.objdirs
         /\ refs' = [refs EXCEPT ![ref_path.val] = File(commit.sha, 0)]

\* commit: the commit object is written
CommitObject(msg, commit, wb) ==
    CommitRef(msg, commit, wb.written,
              write_object(commit, TRUE, wb.objects, wb.objdirs),
              parse_git_head(refs[STR_HEAD].bytes))

\* commit: a blob is written for every leaf, the parent is looked up
CommitBlobs(msg, tree_sha, wb) ==
    IF ~wb.r.ok THEN CommitFails(msg, wb.r, wb.objects, wb.objdirs, wb.written)
    ELSE CommitObject(msg, NewCommit(tree_sha, git_sha_from_head(refs), msg), wb)

\* commit: the tree of the index is written
CommitTree(msg, tree, wt) ==
    IF ~wt.r.ok THEN CommitFails(msg, wt.r, objects, objdirs, <<>>)
    ELSE CommitBlobs(msg, ToHex(wt.r.val),
                     write_blobs(tree.contents, wt.objects, wt.objdirs,
                                 <<<<tree, ToHex(wt.r.val), wt.existed>>>>))

\* commit: nothing staged is a message, not an error
CommitStaged(msg, tree, staged) ==
    IF ~staged.ok THEN CommitFails(msg, Err(staged.err), objects, objdirs, <<>>)
    ELSE IF staged.val = {}
    THEN /\ ret' = Returned("commit", msg, marker, TRUE, Ok(<<>>),
                            "nothing added to commit", <<>>)
         /\ UNCHANGED <<objects, objdirs, refs, ncommits>>
    ELSE CommitTree(msg, tree, write_object(tree, TRUE, objects, objdirs))

\* commit: the index is parsed with the codec of index.rs
CommitIndex(msg, parsed) ==
    IF ~parsed.ok THEN CommitFails(msg, Err(parsed.err), objects, objdirs, <<>>)
    ELSE CommitStaged(msg, index_to_tree(parsed.val),
                      staged_but_not_commited(parsed.val, refs, objects))

\* cmd_mods/commit.rs: commit(msg, repo)
Commit(msg) ==
    /\ IF ~index.exists
       THEN /\ ret' = Returned("commit", msg, marker, TRUE, Ok(<<>>), "no index", <<>>)
            /\ UNCHANGED <<objects, objdirs, refs, ncommits>>
       ELSE CommitIndex(msg, parse_git_index(index.bytes))
    /\ UNCHANGED <<marker, worktree, index, clock, codecVars>>

STR_modified == <<109, 111, 100, 105, 102, 105, 101, 100, 58, 32>>

\* st_mtime of a worktree file: a write sets st_mtime and st_ctime alike
Mtime(file) == <<file.ctime, 0>>

\* ignored_files: the worktree holds no .gitignore
ignored_files == {}

\* gather_mtime_from_worktree: (path, mtime) of every node of the worktree
\* root but .git and the ignored ones; the marker is one of the nodes
gather_mtime_from_worktree ==
    {<<f, Mtime(worktree[f])>> : f \in {g \in DOMAIN worktree : worktree[g].exists} \ ignored_files}
        \cup (IF marker THEN {<<STR_marker, <<0, 0>>>>} ELSE {})

\* the (name, m_time) pairs of the index entries
idx_name_mtime_pairs(entries) ==
    {<<entries[i].name, entries[i].m_time>> : i \in 1..Len(entries)}

\* the lines of one section of the report, each under the pair it is
\* formatted from; the order of the lines is the iteration order of a HashSet
ReportLines(pairs, prefix) == [p \in pairs |-> prefix \o p[1] \o <<LF>>]

\* local_changes_not_staged_for_commit_or_untracked
local_changes(idx) ==
    [not_staged  |-> ReportLines(idx_name_mtime_pairs(idx.entries)
                                     \ gather_mtime_from_worktree, STR_modified),
     not_tracked |-> ReportLines(gather_mtime_from_worktree
                                     \ idx_name_mtime_pairs(idx.entries), <<>>)]

\* status: the three sections put together
status_report(idx, staged) ==
    IF ~staged.ok THEN Err(staged.err)
    ELSE Ok([staged      |-> ReportLines(staged.val, STR_modified),
             not_staged  |-> local_changes(idx).not_staged,
             not_tracked |-> local_changes(idx).not_tracked])

\* status: the index is parsed with the codec of index.rs
status_index(parsed) ==
    IF ~parsed.ok THEN Err(parsed.err)
    ELSE status_report(parsed.val, staged_but_not_commited(parsed.val, refs, objects))

\* cmd_mods/status.rs: status(repo)
Status ==
    /\ ret' = IF ~index.exists
              THEN Returned("status", <<>>, marker, FALSE, Ok(<<>>), "no index", <<>>)
              ELSE Returned("status", <<>>, marker, FALSE,
                            status_index(parse_git_index(index.bytes)), "none", <<>>)
    /\ UNCHANGED <<marker, worktree, objects, objdirs, index, refs, clock, ncommits,
                   codecVars>>

InitIdle ==
    /\ cin = [fn |-> "none"]
    /\ cout = NoOutput

Init == InitRepo /\ InitIdle

Next ==
    \/ \E w \in WorktreeWrites : WriteFile(w[1], w[2])
    \/ RemoveMarker
    \/ CreateMarker
    \/ \E f \in FileNames, with_repo \in BOOLEAN : HashObject(f, with_repo)
    \/ \E f \in FileNames : Add(f)
    \/ \E msg \in CommitMessages : Commit(msg)
    \/ Status

Spec == Init /\ [][Next]_vars

\* the version fields of the index files under test: 2, other small versions,
\* a version over 2^31, and versions whose first byte is a letter of "DIRC"
VersionFields ==
    {<<0, 0, 0, 2>>, <<0, 0, 0, 0>>, <<0, 0, 0, 1>>, <<0, 0, 0, 3>>, <<0, 0, 0, 4>>,
     <<0, 0, 2, 0>>, <<2, 0, 0, 0>>, <<255, 255, 255, 255>>, <<67, 0, 0, 0>>, <<68, 0, 0, 3>>}

\* the entry count fields of those files
CountFields == {<<0, 0, 0, 0>>, <<0, 0, 0, 1>>, <<2, 0, 0, 0>>}

\* an index file with nothing after its header but the checksum
HeaderOnlyFile(version, count) ==
    STR_DIRC \o version \o count \o Sha1(STR_DIRC \o version \o count)

\* a version-2 index file with one entry and no extension
OneEntryFile == IndexToBinary([entries |-> <<FakeEntry(<<97>>, ZeroSha, 1)>>, extensions |-> <<>>])

\* index files with a chosen version field, and the one-entry file cut short
\* at every length
ParseIndexInputs ==
    {[fn |-> "parse_index", version |-> v, whole |-> TRUE, bytes |-> HeaderOnlyFile(v, c)]
        : v \in VersionFields, c \in CountFields}
    \cup {[fn |-> "parse_index", version |-> <<0, 0, 0, 2>>, whole |-> n = Len(OneEntryFile),
           bytes |-> Take(OneEntryFile, n)] : n \in 0..Len(OneEntryFile)}

\* index.rs: parse_git_index on the bytes of a file
ParseIndex ==
    /\ cin.fn = "parse_index"
    /\ cout = NoOutput
    /\ cout' = [fn |-> cin.fn, codec |-> "index.rs", r |-> parse_git_index(cin.bytes)]
    /\ UNCHANGED <<cin, repoVars>>

\* object_parsers.rs: parse_git_index on the bytes of a file
ObjpParseIndex ==
    /\ cin.fn = "parse_index"
    /\ cout = NoOutput
    /\ cout' = [fn |-> cin.fn, codec |-> "object_parsers.rs",
                r |-> objp_parse_git_index(cin.bytes)]
    /\ UNCHANGED <<cin, repoVars>>

-----------------------------------------------------------------------------
(* The codec harness as a specification                                    *)

InitCodec ==
    /\ InitRepo
    /\ cout = NoOutput
    /\ \/ cin \in EnvelopeInputs
       \/ cin \in CommitInputs
       \/ cin \in TreeInputs
       \/ cin \in IndexInputs
       \/ cin \in PaddingInputs
       \/ cin \in ParseIndexInputs

NextCodec ==
    \/ DecodeObj
    \/ CommitRoundTrip
    \/ TreeRoundTrip
    \/ IndexRoundTrip
    \/ ObjpIndexRoundTrip
    \/ EntryPaddingArithmetic
    \/ ParseIndex
    \/ ObjpParseIndex

SpecCodec == InitCodec /\ [][NextCodec]_vars

-----------------------------------------------------------------------------
(* Ref resolution                                                          *)

MaxDepth == 4

STR_tag == <<114, 101, 102, 115, 47, 116, 97, 103, 115, 47, 116>>

RefNames == {STR_HEAD, STR_master, STR_tag}

\* what a ref file of the resolver's inputs may hold: a bare hash, a hash
\* inside whitespace, or an indirection to a ref name
RefContents ==
    {TestSha, <<SP>> \o TestSha \o <<LF>>}
        \cup {STR_ref \o p \o <<LF>> : p \in RefNames}

RefFiles == {NoFile} \cup {File(c, 0) : c \in RefContents}

\* resolve_ref / git_resolve_ref.  depth counts the nested calls; past MaxDepth
\* the recursion is cut and reported as not returning
RECURSIVE resolve_ref(_, _, _)
resolve_ref(ref_path, rs, depth) ==
    IF depth > MaxDepth THEN Err("DIVERGES")
    ELSE IF ref_path \notin DOMAIN rs \/ ~rs[ref_path].exists THEN Err("IO")
    ELSE With(rs[ref_path].bytes, LAMBDA data :
             IF ~IsUtf8(data) THEN Err("IO")
             ELSE IF Len(data) < 5 \/ (Len(data) > 5 /\ data[6] >= 128 /\ data[6] < 192)
             THEN Err("PANIC")
             ELSE IF Take(data, 5) = STR_ref
             THEN resolve_ref(Trim(Drop(data, 5)), rs, depth + 1)
             ELSE Ok(Trim(data)))

ResolveRef(ref_path) ==
    /\ ret' = Returned("resolve_ref", ref_path, marker, FALSE,
                       resolve_ref(ref_path, refs, 0), "none", <<>>)
    /\ UNCHANGED <<marker, worktree, objects, objdirs, index, refs, clock, ncommits,
                   codecVars>>

InitRefs ==
    /\ InitIdle
    /\ marker = TRUE
    /\ worktree = [f \in FileNames |-> NoFile]
    /\ objects = <<>>
    /\ objdirs = {}
    /\ index = NoFile
    /\ refs \in [RefNames -> RefFiles]
    /\ clock = 0
    /\ ncommits = 0
    /\ ret = Returned("init", <<>>, TRUE, TRUE, Ok(<<>>), "none", <<>>)

NextRefs == \E ref_path \in RefNames : ResolveRef(ref_path)

SpecRefs == InitRefs /\ [][NextRefs]_vars

-----------------------------------------------------------------------------
(* Properties                                                              *)

\* parse_git_index over the index file on disk (the codec that add uses)
EntriesOf(file) == objp_parse_git_index(file.bytes).val.entries

NamesOf(entries) == {entries[i].name : i \in 1..Len(entries)}

StrictlySorted(entries) ==
    \A i \in 1..(Len(entries) - 1) : LexLess(entries[i].name, entries[i + 1].name)

\* a step of add that rewrote an index holding the added name already: the
\* entry count is the same, the entry of that name is the one built from the
\* file as it is now, every other entry is as it was
ReAddReplaces ==
    (index.exists /\ index' # index /\ ret'.arg \in NamesOf(EntriesOf(index))) =>
        /\ ret'.op = "add"
        /\ Len(EntriesOf(index')) = Len(EntriesOf(index))
        /\ \A i \in 1..Len(EntriesOf(index)) :
              EntriesOf(index')[i] =
                  IF EntriesOf(index)[i].name = ret'.arg
                  THEN file_to_index_entry(ret'.arg, worktree[ret'.arg])
                  ELSE EntriesOf(index)[i]

\* C1: from no index, after any sequence of adds the index file parses and
\* its entries are strictly ascending by name (sorted, no name twice); an add
\* of a name already present keeps the entry count and puts the new entry at
\* that name
C1_SortedAndReplaced ==
    /\ [](index.exists =>
            /\ objp_parse_git_index(index.bytes).ok
            /\ StrictlySorted(EntriesOf(index)))
    /\ [][ReAddReplaces]_vars

\* C1 witness: an add has replaced the entry of "a" by the entry of the file
\* written second, and the index holds it
C1_Witness ==
    /\ ret.op = "add"
    /\ ret.note = "replaced"
    /\ ret.arg = <<97>>
    /\ \E i \in 1..Len(EntriesOf(index)) :
          /\ EntriesOf(index)[i].name = <<97>>
          /\ EntriesOf(index)[i].c_time = <<2, 0>>
          /\ EntriesOf(index)[i].sha = Sha1(BlobAsBytes(BlobNew(worktree[<<97>>].bytes)))

\* a write_object with a store in this step that found its object file there
\* already: the file is untouched, and it is the one file of that hash
WriteLeavesExisting ==
    \A i \in 1..Len(ret'.written) :
        LET obj  == ret'.written[i][1]
            hash == ret'.written[i][2]
            path == ObjPath(hash)
        IN  path \in DOMAIN objects =>
                /\ hash = ToHex(Sha1(ObjAsBytes(obj)))
                /\ ZlibDecode(objects[path].bytes) = Ok(ObjAsBytes(obj))
                /\ objects'[path] = objects[path]
                /\ Cardinality({q \in DOMAIN objects' : q[1] \o q[2] = hash}) = 1

\* C2: write_object with a store is idempotent: writing an object whose
\* envelope is already stored returns the hash that names the stored file,
\* leaves exactly one file for that hash, and does not modify that file
C2_WriteIdempotent == [][WriteLeavesExisting]_vars

\* C2 witness: a write_object with a store found the object file already there,
\* and that file has been created once
C2_Witness ==
    \E i \in 1..Len(ret.written) :
        /\ ret.written[i][3]
        /\ ObjPath(ret.written[i][2]) \in DOMAIN objects
        /\ objects[ObjPath(ret.written[i][2])].created = 1

\* C3 as stated: every object handed to write_object with a store reads back,
\* by the hash returned, as an object of the same variant equal to it
C3_StoreRoundTrip ==
    \A i \in 1..Len(ret.written) :
        LET obj  == ret.written[i][1]
            back == read_object(ret.written[i][2], objects)
        IN  /\ back.ok
            /\ back.val.typ = obj.typ
            /\ back.val = obj

C5_CommitRoundTrip ==
    cout.fn = "commit_round_trip" => (cout.r.ok /\ cout.bytes = cout.input)

\* C6 as stated: an encoded tree decodes to the leaf sequence it was encoded
\* from, and encodes again to the same bytes
C6_TreeRoundTrip ==
    cout.fn = "tree_round_trip" =>
        /\ cout.r.ok
        /\ cout.r.val.contents = cin.leaves
        /\ cout.bytes = cout.input

\* C7 as stated: a well-formed version-2 index file, with or without an
\* extension region, parses and encodes to the bytes it was parsed from
C7_IndexRoundTrip ==
    cout.fn = "index_round_trip" => (cout.r.ok /\ cout.bytes = cin.bytes)

\* C8 as stated: for a name of n >= 1 bytes the pad count is
\* 8 - ((62 + n) mod 8), between 1 and 8, the entry is a multiple of 8 bytes
\* long, the 16-bit name-length field is n, the decoder skips the same pad
\* count, and 62 + n does not overflow 16 bits
C8_PaddingArithmetic ==
    cout.fn = "entry_padding" =>
        /\ cout.pad = 8 - ((EntryFixedLen + cin.n) % 8)
        /\ cout.pad \in 1..8
        /\ cout.written % 8 = 0
        /\ cout.name_size = cin.n
        /\ cout.dec_name = cin.n
        /\ cout.dec_pad = cout.pad
        /\ ~cout.overflowed
        /\ ~cout.panicked

\* the ref files that hold a hash: bare, or inside whitespace
DirectContents == {TestSha, <<SP>> \o TestSha \o <<LF>>}

\* the acyclic chains of k indirections in the ref files: k files `ref: <next>`
\* and at the end a file that holds the hash
Chains(k) ==
    {c \in [1..(k + 1) -> RefNames] :
        /\ \A i, j \in 1..(k + 1) : c[i] = c[j] => i = j
        /\ \A i \in 1..k :
              /\ refs[c[i]].exists
              /\ refs[c[i]].bytes = STR_ref \o c[i + 1] \o <<LF>>
        /\ refs[c[k + 1]].exists
        /\ refs[c[k + 1]].bytes \in DirectContents}

\* C9: a ref at the head of an acyclic chain of k >= 0 indirections resolves
\* to what the direct ref at the end of the chain resolves to, and that is the
\* hash in the last file with the whitespace around it trimmed
C9_RefChain ==
    ret.op = "resolve_ref" =>
        \A k \in 0..(Cardinality(RefNames) - 1) :
            \A c \in Chains(k) :
                c[1] = ret.arg =>
                    /\ ret.r.ok
                    /\ ret.r.val = TestSha
                    /\ resolve_ref(c[k + 1], refs, 0) = ret.r

\* C9 witness: a ref two indirections away from a file that holds the hash
\* inside whitespace has resolved to the bare hash
C9_Witness ==
    /\ ret.op = "resolve_ref"
    /\ ret.r.ok
    /\ ret.r.val = TestSha
    /\ \E c \in Chains(2) :
          /\ c[1] = ret.arg
          /\ refs[c[3]].bytes = <<SP>> \o TestSha \o <<LF>>

MarkerMissing(r) == ~r.ok /\ r.err = "RustyGitAllowedFileMissing"

\* the command that has returned reached a write_object with a store, or is
\* add or commit
Mutating ==
    \/ ret.op = "hash_object" /\ ret.store /\ ret.r.err # "IO"
    \/ ret.op = "add"
    \/ ret.op = "commit"

NoMarkerNoChange == ~marker => UNCHANGED <<objects, objdirs, index, refs>>

\* C10 as stated: with the marker absent every mutating operation returns
\* RustyGitAllowedFileMissing, and the object database, the index file and the
\* ref files are as they were
C10_Guardrail ==
    /\ []((Mutating /\ ~ret.marker) => MarkerMissing(ret.r))
    /\ [][NoMarkerNoChange]_vars

\* what commit finds staged, read from the index and HEAD as they are
SomethingStaged ==
    /\ index.exists
    /\ parse_git_index(index.bytes).ok
    /\ staged_but_not_commited(parse_git_index(index.bytes).val, refs, objects).ok
    /\ staged_but_not_commited(parse_git_index(index.bytes).val, refs, objects).val # {}

\* C10 amended: with the marker absent, hash_object with a store and add
\* return RustyGitAllowedFileMissing; commit returns it when something is
\* staged and otherwise returns Ok with its nothing-to-commit message; in
\* every case the object database, the index file and the ref files are as
\* they were
C10_GuardrailAmended ==
    /\ []((Mutating /\ ~ret.marker) =>
            IF ret.op = "commit" /\ ~SomethingStaged
            THEN ret.r.ok /\ ret.note \in {"no index", "nothing added to commit"}
            ELSE MarkerMissing(ret.r))
    /\ [][NoMarkerNoChange]_vars

\* C10 witness: commit was refused for the missing marker with an entry staged
C10_Witness ==
    /\ ret.op = "commit"
    /\ ~ret.marker
    /\ ~marker
    /\ SomethingStaged
    /\ MarkerMissing(ret.r)

\* the (name, hex hash) pairs of the entries of the index file, read with the
\* codec that status uses
IndexPairs ==
    {<<parse_git_index(index.bytes).val.entries[i].name,
       ToHex(parse_git_index(index.bytes).val.entries[i].sha)>> :
        i \in 1..Len(parse_git_index(index.bytes).val.entries)}

\* the staged section of the status that has returned holds, for each of the
\* given pairs and for nothing else, the line `modified: <name>`
StagedIs(pairs) ==
    /\ ret.r.ok
    /\ DOMAIN ret.r.val.staged = pairs
    /\ \A p \in pairs : ret.r.val.staged[p] = STR_modified \o p[1] \o <<LF>>

FreshWithOneStaged(f) ==
    /\ marker
    /\ ~refs[STR_master].exists
    /\ \A g \in FileNames : worktree[g].exists <=> g = f
    /\ index.exists
    /\ parse_git_index(index.bytes).ok
    /\ parse_git_index(index.bytes).val.entries = <<file_to_index_entry(f, worktree[f])>>

\* C12 as stated: status in a fresh repository with one staged file reports
\* that file as staged, nothing as untracked and nothing as not staged
C12_FreshStatus ==
    \A f \in FileNames :
        (ret.op = "status" /\ FreshWithOneStaged(f)) =>
            /\ StagedIs({<<f, ToHex(Sha1(BlobAsBytes(BlobNew(worktree[f].bytes))))>>})
            /\ DOMAIN ret.r.val.not_tracked = {}
            /\ DOMAIN ret.r.val.not_staged = {}

\* the leaves of a tree body as git lays them out: the mode up to the first
\* space, one space, the path up to the NUL, the NUL, a 20-byte hash
RECURSIVE GitTreeLeaves(_)
GitTreeLeaves(body) ==
    IF body = <<>> THEN <<>>
    ELSE LET m     == SpanNotIn(body, {SP})
             rest1 == Drop(body, m + 1)
             n     == SpanNotIn(rest1, {NUL})
             rest2 == Drop(rest1, n + 1)
         IN  <<[mode |-> Take(body, m), path |-> Take(rest1, n),
                sha |-> Take(rest2, ShaLen)]>> \o GitTreeLeaves(Drop(rest2, ShaLen))

\* the leaves of the stored tree object of the given hash
StoredTreeLeaves(hash, objs) ==
    LET bytes == ZlibDecode(objs[ObjPath(hash)].bytes).val
    IN  GitTreeLeaves(Drop(bytes, SpanNotIn(bytes, {NUL}) + 1))

\* the (path, hex hash) pairs of the tree of the commit that HEAD names; no
\* tree of these repositories has a nested tree
HeadCommitted ==
    IF ~refs[STR_master].exists THEN {}
    ELSE LET leaves == StoredTreeLeaves(
                           read_object(Trim(refs[STR_master].bytes), objects).val.kvs[STR_tree],
                           objects)
         IN  {<<leaves[i].path, ToHex(leaves[i].sha)>> : i \in 1..Len(leaves)}

\* C13 as stated: the staged section of status has one `modified: <path>` line
\* for each index entry whose (path, hash) pair is not in the committed tree of
\* HEAD, and no other line
C13_StagedReport ==
    (ret.op = "status" /\ index.exists) => StagedIs(IndexPairs \ HeadCommitted)

\* a step of hash_object without a store on a file of the worktree: the
\* object database is as it was, and the hash returned is the one that
\* write_object with a store returns for the same blob
HashOnlyStep ==
    (ret'.op = "hash_object" /\ ~ret'.store /\ worktree[ret'.arg].exists) =>
        /\ objects' = objects
        /\ objdirs' = objdirs
        /\ ret'.r = Ok(ToHex(Sha1(BlobAsBytes(BlobNew(worktree[ret'.arg].bytes)))))
        /\ write_object(BlobNew(worktree[ret'.arg].bytes), TRUE, objects, objdirs).r.ok =>
              ret'.r = Ok(ToHex(write_object(BlobNew(worktree[ret'.arg].bytes), TRUE,
                                             objects, objdirs).r.val))

\* C15: write_object without a store returns the hash that write_object with
\* a store returns for the same object, and creates or modifies nothing in the
\* object database
C15_HashOnly == [][HashOnlyStep]_vars

\* C15 witness: hash_object without a store has returned the hash of a blob
\* that the object database does not hold, in a repository where a store would
\* have been allowed
C15_Witness ==
    /\ ret.op = "hash_object"
    /\ ~ret.store
    /\ ret.r.ok
    /\ marker
    /\ ObjPath(ret.r.val) \notin DOMAIN objects

\* a step of add that succeeds where no index file exists: the index file
\* now exists and holds one entry, named after the file and built from it;
\* the blob of the file is stored, and no other object file is new or changed
FirstAddStep ==
    (ret'.op = "add" /\ ret'.r.ok /\ ~index.exists) =>
        /\ index'.exists
        /\ parse_git_index(index'.bytes).ok
        /\ Len(parse_git_index(index'.bytes).val.entries) = 1
        /\ parse_git_index(index'.bytes).val.entries[1].name = ret'.arg
        /\ EntriesOf(index') = <<file_to_index_entry(ret'.arg, worktree[ret'.arg])>>
        /\ DOMAIN objects' = DOMAIN objects \cup
              {ObjPath(ToHex(Sha1(BlobAsBytes(BlobNew(worktree[ret'.arg].bytes)))))}
        /\ read_object(ToHex(Sha1(BlobAsBytes(BlobNew(worktree[ret'.arg].bytes)))), objects') =
              Ok(BlobNew(worktree[ret'.arg].bytes))
        /\ \A q \in DOMAIN objects : objects'[q] = objects[q]

\* C16: the first add, with no index file, creates the index with exactly one
\* entry named after the added file, and stores exactly one object, the blob
\* of the file
C16_FirstAdd == [][FirstAddStep]_vars

\* C16 witness: add has created the index in a repository with an empty
\* object database: one entry, one object
C16_Witness ==
    /\ ret.op = "add"
    /\ ret.note = "created"
    /\ Len(EntriesOf(index)) = 1
    /\ EntriesOf(index)[1].name = ret.arg
    /\ Cardinality(DOMAIN objects) = 1

\* the entries of an index file whose name is not the given one, in order
OtherEntries(file, name) ==
    LET Other(e) == e.name # name IN SelectSeq(EntriesOf(file), Other)

\* a step of add that succeeds on an existing index: the entries of every
\* other name are the same entries in the same order, and exactly one entry
\* has the added name, the one built from the file
AddKeepsOthers ==
    (ret'.op = "add" /\ ret'.r.ok /\ index.exists) =>
        /\ OtherEntries(index', ret'.arg) = OtherEntries(index, ret'.arg)
        /\ NamesOf(EntriesOf(index')) = NamesOf(EntriesOf(index)) \cup {ret'.arg}
        /\ Cardinality({i \in 1..Len(EntriesOf(index')) :
                           EntriesOf(index')[i].name = ret'.arg}) = 1
        /\ \A i \in 1..Len(EntriesOf(index')) :
              EntriesOf(index')[i].name = ret'.arg =>
                  EntriesOf(index')[i] = file_to_index_entry(ret'.arg, worktree[ret'.arg])

IndexTail(input) ==
    Drop(input.bytes, Len(IndexHeader(input.count)) + Len(EntriesAsBytes(input.entries)))

\* C20 as stated: index.rs parse_git_index succeeds on an index file; a file
\* whose header count is 0 gives zero entries; and when the bytes after the
\* last entry do not parse as an entry, the result holds the entries of the file
C20_EmptyIndexAndTail ==
    (cout.fn = "index_round_trip" /\ cout.codec = "index.rs") =>
        /\ cout.r.ok
        /\ cin.count = 0 => cout.r.val.entries = <<>>
        /\ ~parse_git_index_entry(IndexTail(cin)).ok => cout.r.val.entries = cin.entries

-----------------------------------------------------------------------------
(* Nested trees: flattening for status and checkout into a directory.  In  *)
(* this specification `worktree` is the directory tree under the worktree  *)
(* root: a function from the paths that exist (sequences of names) to      *)
(* their nodes.  The current directory of the process is the worktree root *)

STR_src == <<115, 114, 99>>

STR_lib == <<108, 105, 98>>

STR_main_rs == <<109, 97, 105, 110, 46, 114, 115>>

STR_sub == <<115, 117, 98>>

STR_out == <<111, 117, 116>>

STR_mode_blob == <<49, 48, 48, 54, 52, 52>>

STR_mode_tree == <<52, 48, 48, 48, 48>>

STR_mode_commit == <<49, 54, 48, 48, 48, 48>>

\* what a tree stands for: a file with its bytes, a directory with its named
\* members in git's order, or a commit (the leaf of a submodule)
BlobNode(bytes) == [kind |-> "blob", bytes |-> bytes, leaves |-> <<>>]

TreeNode(leaves) == [kind |-> "tree", bytes |-> <<>>, leaves |-> leaves]

CommitNode == [kind |-> "commit", bytes |-> <<>>, leaves |-> <<>>]

Member(name, node) == [name |-> name, node |-> node]

\* the trees under test
FlatTree == TreeNode(<<Member(<<97>>, BlobNode(<<120>>))>>)

SrcTree ==
    TreeNode(<<Member(<<97>>, BlobNode(<<120>>)),
               Member(STR_src, TreeNode(<<Member(STR_main_rs, BlobNode(<<121>>))>>))>>)

DeepTree ==
    TreeNode(<<Member(STR_src,
                 TreeNode(<<Member(STR_lib,
                              TreeNode(<<Member(STR_main_rs, BlobNode(<<121>>))>>))>>))>>)

SameLeafTree ==
    TreeNode(<<Member(<<97>>, BlobNode(<<122>>)),
               Member(STR_src, TreeNode(<<Member(<<97>>, BlobNode(<<120>>)),
                                          Member(STR_main_rs, BlobNode(<<121>>))>>))>>)

SpaceTree ==
    TreeNode(<<Member(<<SP, 97>>, BlobNode(<<120>>)), Member(<<97>>, BlobNode(<<121>>))>>)

SubmoduleTree ==
    TreeNode(<<Member(<<97>>, BlobNode(<<120>>)), Member(STR_sub, CommitNode)>>)

TreeShapes == {FlatTree, SrcTree, DeepTree, SameLeafTree, SpaceTree, SubmoduleTree}

\* the mode git writes for a leaf of each kind
ModeOf(node) ==
    IF node.kind = "blob" THEN STR_mode_blob
    ELSE IF node.kind = "tree" THEN STR_mode_tree
    ELSE STR_mode_commit

\* an object file put in the object database by git: zlib of the envelope,
\* under the hex of its hash
StoreObj(obj_bytes, objs) ==
    [sha  |-> Sha1(obj_bytes),
     objs |-> IF ObjPath(ToHex(Sha1(obj_bytes))) \in DOMAIN objs THEN objs
              ELSE FileCreate(ObjPath(ToHex(Sha1(obj_bytes))), ZlibEncode(obj_bytes), objs)]

\* the commit object of a submodule leaf
SubmoduleCommit == NewCommit(ToHex(ZeroSha), Err("none"), <<115>>)

\* the tree object of stored leaves
StoreTree(stored) ==
    StoreObj(TreeAsBytes([typ |-> "tree", contents |-> stored.contents]), stored.objs)

RECURSIVE StoreNode(_, _)
RECURSIVE StoreLeaves(_, _, _)
RECURSIVE StoreLeaf(_, _, _, _)
\* a node stored with everything under it
StoreNode(node, objs) ==
    IF node.kind = "blob" THEN StoreObj(BlobAsBytes(BlobNew(node.bytes)), objs)
    ELSE IF node.kind = "commit" THEN StoreObj(CommitAsBytes(SubmoduleCommit), objs)
    ELSE StoreTree(StoreLeaves(node.leaves, objs, <<>>))

StoreLeaves(leaves, objs, acc) ==
    IF leaves = <<>> THEN [contents |-> acc, objs |-> objs]
    ELSE StoreLeaf(Head(leaves), StoreNode(Head(leaves).node, objs), Tail(leaves), acc)

StoreLeaf(leaf, stored, rest, acc) ==
    StoreLeaves(rest, stored.objs,
                Append(acc, [mode |-> ModeOf(leaf.node), path |-> leaf.name,
                             sha |-> stored.sha]))

\* the commit of a tree, stored after the tree
StoreCommit(stored) ==
    StoreObj(CommitAsBytes(NewCommit(ToHex(stored.sha), Err("none"), <<109>>)), stored.objs)

\* a directory and a file of the directory tree
DirNode == [kind |-> "dir", bytes |-> <<>>]

FileNode(bytes) == [kind |-> "file", bytes |-> bytes]

\* the directory tree with one more path, or with that path replaced
FsPut(fs, path, node) ==
    [q \in DOMAIN fs \cup {path} |-> IF q = path THEN node ELSE fs[q]]

RECURSIVE WorkingCopy(_, _, _)
RECURSIVE WorkingCopyMember(_, _, _, _)
\* the working copy of the members of a tree under a directory: a directory
\* per tree member, a file per blob member, nothing for a submodule
WorkingCopy(leaves, path, fs) ==
    IF leaves = <<>> THEN fs
    ELSE WorkingCopy(Tail(leaves), path,
                     WorkingCopyMember(Head(leaves).node, Append(path, Head(leaves).name),
                                       path, fs))

WorkingCopyMember(node, at, path, fs) ==
    IF node.kind = "blob" THEN FsPut(fs, at, FileNode(node.bytes))
    ELSE IF node.kind = "tree" THEN WorkingCopy(node.leaves, at, FsPut(fs, at, DirNode))
    ELSE FsPut(fs, at, DirNode)

\* the states of the target directory `out` before a checkout
OutStates == {"missing", "empty", "nonempty", "file"}

WithOut(fs, out) ==
    IF out = "missing" THEN fs
    ELSE IF out = "file" THEN FsPut(fs, <<STR_out>>, FileNode(<<120>>))
    ELSE IF out = "empty" THEN FsPut(fs, <<STR_out>>, DirNode)
    ELSE FsPut(FsPut(fs, <<STR_out>>, DirNode), <<STR_out, <<97>>>>, FileNode(<<120>>))

\* the names of the directories of the current directory, .git among them
CwdDirsOf(fs) == {STR_dotgit} \cup {q[1] : q \in {r \in DOMAIN fs : Len(r) = 1 /\ fs[r].kind = "dir"}}

\* the input of a run: the tree, the hashes of its stored tree, commit and
\* first blob
TreeInput(shape, stored) ==
    [fn |-> "tree", shape |-> shape, tree |-> ToHex(stored.sha),
     commit |-> ToHex(StoreCommit(stored).sha),
     blob |-> ToHex(Sha1(BlobAsBytes(BlobNew(<<120>>))))]

InitTreeOf(shape, stored, has_copy, out) ==
    /\ cin = TreeInput(shape, stored)
    /\ objects = StoreCommit(stored).objs
    /\ objdirs = {q[1] : q \in DOMAIN StoreCommit(stored).objs}
    /\ worktree = WithOut(IF has_copy THEN WorkingCopy(shape.leaves, <<>>, <<>>) ELSE <<>>, out)

InitTree ==
    /\ cout = NoOutput
    /\ marker = TRUE
    /\ index = NoFile
    /\ refs = [p \in RefPaths |-> IF p = STR_HEAD THEN File(STR_ref \o STR_master \o <<LF>>, 0)
                                    ELSE NoFile]
    /\ clock = 0
    /\ ncommits = 1
    /\ ret = Returned("init", <<>>, TRUE, TRUE, Ok(<<>>), "none", <<>>)
    /\ \E shape \in TreeShapes, has_copy \in BOOLEAN, out \in OutStates :
          InitTreeOf(shape, StoreNode(shape, <<>>), has_copy, out)

\* staged_but_not_commited: the flattened tree of the commit
committed_pairs(tree, objs, dirs) ==
    IF ~tree.ok THEN tree ELSE tree_file_sha_pairs(tree.val, NoPrefix, objs, dirs)

\* status.rs: tree_file_sha_pairs(tree, None, repo) on the stored tree, as
\* staged_but_not_commited calls it
TreeFileShaPairs ==
    /\ cout = NoOutput
    /\ cout' = [fn |-> "tree_file_sha_pairs",
                r |-> committed_pairs(read_object(cin.tree, objects), objects,
                                      CwdDirsOf(worktree))]
    /\ ret' = Returned("tree_file_sha_pairs", cin.tree, marker, FALSE, Ok(<<>>), "none", <<>>)
    /\ UNCHANGED <<cin, marker, worktree, objects, objdirs, index, refs, clock, ncommits>>

\* object_parsers.rs: parse_git_obj: the type word, the declared length, and
\* everything after the NUL as the contents (the length is not compared)
objp_git_obj_of(word, l, sha) ==
    IF ~l.ok THEN Err("Nom")
    ELSE Ok([obj |-> IF word = STR_blob THEN "blob"
                     ELSE IF word = STR_commit THEN "commit" ELSE "tree",
             len |-> l.val, contents |-> l.rest, sha |-> sha])

objp_parse_git_obj(input, sha) ==
    With(alt_obj_word(input), LAMBDA o :
        IF ~o.ok THEN Err("Nom") ELSE objp_git_obj_of(o.val, parse_obj_len(o.rest), sha))

\* obj::read_object as checkout calls it: the object file of the hash,
\* inflated, through object_parsers::parse_git_obj
objp_read_object(sha, objs) ==
    IF ObjPath(sha) \notin DOMAIN objs THEN Err("GitObjPathDoesntExist")
    ELSE With(ZlibDecode(objs[ObjPath(sha)].bytes), LAMBDA inflated :
             IF ~inflated.ok THEN Err("InflatingGitObj")
             ELSE objp_parse_git_obj(inflated.val, sha))

\* object_parsers.rs: parse_git_tree on the contents of an object read
objp_parse_git_tree(obj) == IF ~obj.ok THEN obj ELSE parse_git_tree(obj.val.contents)

\* utils.rs: git_get_tree_from_commit(sha, contents, repo)
tree_from_commit_contents(sha, contents, objs) ==
    With(parse_kv_list_msg(contents, sha), LAMBDA c :
        IF ~c.ok THEN c
        ELSE IF STR_tree \notin DOMAIN c.val.kvs THEN Err("GitNoTreeKeyInCommit")
        ELSE IF ~IsUtf8(c.val.kvs[STR_tree]) THEN Err("Utf8Conversion")
        ELSE objp_parse_git_tree(objp_read_object(c.val.kvs[STR_tree], objs)))

\* Path::is_dir
IsDir(fs, path) == path = <<>> \/ (path \in DOMAIN fs /\ fs[path].kind = "dir")

\* the directory a path is in
Parent(path) == SubSeq(path, 1, Len(path) - 1)

\* read_dir(path): the paths directly under a directory
ReadDir(fs, path) == {q \in DOMAIN fs : Len(q) = Len(path) + 1 /\ Parent(q) = path}

dir_ok_for_checkout_any(fs, path) == Ok(TRUE)

\* checkout.rs: dir_ok_for_checkout
dir_ok_for_checkout(fs, path) ==
    IF path \notin DOMAIN fs THEN Err("TargetDirDoesntExist")
    ELSE IF ~IsDir(fs, path) THEN Err("IO")
    ELSE IF ReadDir(fs, path) = {} THEN Ok(TRUE)
    ELSE Err("TargetDirNotEmpty")

\* what a step of checkout_tree leaves: its result and the directory tree
Done(r, fs) == [r |-> r, fs |-> fs]

\* std::fs::create_dir: fails when the path exists or its parent is no directory
create_dir(fs, dst) ==
    IF dst \in DOMAIN fs \/ ~IsDir(fs, Parent(dst)) THEN Done(Err("IO"), fs)
    ELSE Done(Ok(<<>>), FsPut(fs, dst, DirNode))

\* File::create and write_all: a new file or the old one truncated; fails on
\* a directory or under no directory
file_create_write(fs, dst, bytes) ==
    IF IsDir(fs, dst) \/ ~IsDir(fs, Parent(dst)) THEN Done(Err("IO"), fs)
    ELSE Done(Ok(<<>>), FsPut(fs, dst, FileNode(bytes)))

RECURSIVE checkout_tree(_, _, _, _)
RECURSIVE checkout_leaf(_, _, _, _, _)
RECURSIVE checkout_sub_tree(_, _, _, _, _)
RECURSIVE checkout_into(_, _, _, _, _)
RECURSIVE checkout_rest(_, _, _, _)
\* checkout.rs: checkout_tree: for leaf in tree.contents
checkout_tree(leaves, path, objs, fs) ==
    IF leaves = <<>> THEN Done(Ok(<<>>), fs)
    ELSE checkout_leaf(objp_read_object(ToHex(Head(leaves).sha), objs), leaves, path, objs, fs)

\* match obj.obj
checkout_leaf(obj, leaves, path, objs, fs) ==
    IF ~obj.ok THEN Done(obj, fs)
    ELSE IF obj.val.obj = "tree"
    THEN checkout_sub_tree(objp_parse_git_tree(obj), leaves, path, objs, fs)
    ELSE IF obj.val.obj = "blob"
    THEN checkout_rest(file_create_write(fs, Append(path, Head(leaves).path), obj.val.contents),
                       leaves, path, objs)
    ELSE Done(Err("GitTreeInvalidObject"), fs)

\* the Tree arm: parse, create_dir, recurse
checkout_sub_tree(sub_tree, leaves, path, objs, fs) ==
    IF ~sub_tree.ok THEN Done(sub_tree, fs)
    ELSE checkout_into(create_dir(fs, Append(path, Head(leaves).path)), sub_tree.val.contents,
                       leaves, path, objs)

checkout_into(made, sub_leaves, leaves, path, objs) ==
    IF ~made.r.ok THEN made
    ELSE checkout_rest(checkout_tree(sub_leaves, Append(path, Head(leaves).path), objs, made.fs),
                       leaves, path, objs)

\* the `?` after a leaf, then the next leaf
checkout_rest(done, leaves, path, objs) ==
    IF ~done.r.ok THEN done ELSE checkout_tree(Tail(leaves), path, objs, done.fs)

\* commands.rs: checkout after read_object: match obj
checkout_parsed(tree, dir, objs, fs) ==
    IF ~tree.ok THEN Done(tree, fs) ELSE checkout_tree(tree.val.contents, dir, objs, fs)

checkout_object(obj, dir, objs, fs) ==
    IF ~obj.ok THEN Done(obj, fs)
    ELSE IF obj.val.obj = "commit"
    THEN checkout_parsed(tree_from_commit_contents(obj.val.sha, obj.val.contents, objs),
                         dir, objs, fs)
    ELSE IF obj.val.obj = "tree" THEN checkout_parsed(objp_parse_git_tree(obj), dir, objs, fs)
    ELSE Done(Err("GitCheckoutWrongObjType"), fs)

\* commands.rs: checkout(sha, dir, repo)
checkout(sha, dir, objs, fs) ==
    IF ~dir_ok_for_checkout(fs, dir).ok THEN Done(dir_ok_for_checkout(fs, dir), fs)
    ELSE checkout_object(objp_read_object(sha, objs), dir, objs, fs)

\* the hashes checkout is called with: the commit, its tree, a blob
CheckoutShas == {cin.commit, cin.tree, cin.blob}

\* the directories checkout is called with
TargetDirs == {<<STR_out>>, <<STR_src>>}

\* the checkout command; the note tells whether an object was read
Checkout(sha, dir) ==
    /\ worktree' = checkout(sha, dir, objects, worktree).fs
    /\ ret' = Returned("checkout", <<sha, dir>>, marker, FALSE,
                       checkout(sha, dir, objects, worktree).r,
                       IF dir_ok_for_checkout(worktree, dir).ok THEN "objects read"
                       ELSE "no object read", <<>>)
    /\ UNCHANGED <<marker, objects, objdirs, index, refs, clock, ncommits, codecVars>>

NextTree ==
    \/ TreeFileShaPairs
    \/ \E sha \in CheckoutShas, dir \in TargetDirs : Checkout(sha, dir)

SpecTree == InitTree /\ [][NextTree]_vars

\* the hex hash git gives a blob of these bytes
BlobHash(bytes) == ToHex(Sha1(BlobAsBytes(BlobNew(bytes))))

RECURSIVE FlatPairs(_, _)
RECURSIVE FlatPairsOf(_, _)
\* the flattened view of the members of a tree: for each file reached through
\* directories d1, ..., dk the pair (d1/.../dk/name, hash of its blob)
FlatPairs(leaves, prefix) ==
    IF leaves = <<>> THEN {}
    ELSE FlatPairsOf(Head(leaves).node,
                     IF prefix = <<>> THEN Head(leaves).name
                     ELSE prefix \o <<SLASH>> \o Head(leaves).name)
         \cup FlatPairs(Tail(leaves), prefix)

FlatPairsOf(node, name) ==
    IF node.kind = "blob" THEN {<<name, BlobHash(node.bytes)>>}
    ELSE IF node.kind = "tree" THEN FlatPairs(node.leaves, name)
    ELSE {}

\* C14 as stated: flattening the committed tree (of blobs and nested trees)
\* succeeds and gives exactly the pairs (d1/.../dk/leaf, leaf hash) of its
\* blob leaves; no nested-tree leaf is a pair
C14_TreeFlattening ==
    (cout.fn = "tree_file_sha_pairs" /\ cin.shape # SubmoduleTree) =>
        /\ cout.r.ok
        /\ cout.r.val = FlatPairs(cin.shape.leaves, <<>>)

\* a step of checkout into a directory that is missing or holds an entry: the
\* matching precondition error, no object read, the directory tree as it was
CheckoutRefused ==
    (ret'.op = "checkout") =>
        /\ ret'.arg[2] \notin DOMAIN worktree =>
              /\ ret'.r = Err("TargetDirDoesntExist")
              /\ ret'.note = "no object read"
              /\ worktree' = worktree
        /\ (IsDir(worktree, ret'.arg[2]) /\ ReadDir(worktree, ret'.arg[2]) # {}) =>
              /\ ret'.r = Err("TargetDirNotEmpty")
              /\ ret'.note = "no object read"
              /\ worktree' = worktree

\* C18: checkout into a target directory that does not exist, or that holds
\* any entry, returns the directory-missing or directory-not-empty error before
\* it reads an object, and creates no file and no directory
C18_CheckoutPrecondition == [][CheckoutRefused]_vars

\* C18 witness: a checkout has been refused for a target directory that holds
\* an entry, and nothing has been read
C18_Witness ==
    /\ ret.op = "checkout"
    /\ ret.r = Err("TargetDirNotEmpty")
    /\ ret.note = "no object read"
    /\ ReadDir(worktree, ret.arg[2]) # {}

\* the trees that hold a leaf which is neither a blob nor a tree
RECURSIVE HasCommitLeaf(_)
HasCommitLeaf(leaves) ==
    /\ leaves # <<>>
    /\ \/ Head(leaves).node.kind = "commit"
       \/ HasCommitLeaf(Head(leaves).node.leaves)
       \/ HasCommitLeaf(Tail(leaves))

\* a step of checkout of the commit or of its tree into an existing empty
\* directory: a directory per nested tree and a file per blob, with the blob's
\* bytes; or the error when a leaf is neither
CheckoutMaterializes ==
    (/\ ret'.op = "checkout"
     /\ ret'.arg[1] \in {cin.commit, cin.tree}
     /\ IsDir(worktree, ret'.arg[2])
     /\ ReadDir(worktree, ret'.arg[2]) = {}) =>
        IF HasCommitLeaf(cin.shape.leaves)
        THEN ret'.r = Err("GitTreeInvalidObject")
        ELSE /\ ret'.r.ok
             /\ worktree' = WorkingCopy(cin.shape.leaves, ret'.arg[2], worktree)

\* C19 as stated: checkout of a tree into an existing empty directory creates
\* one directory per nested-tree leaf and one file per blob leaf, recursively,
\* each file with the bytes of its blob; a leaf whose object is neither blob
\* nor tree gives the unexpected-object-type error
C19_TreeMaterialization == [][CheckoutMaterializes]_vars

\* C21 as stated: parse_git_index rejects every index file whose 4-byte
\* big-endian version field is not 2, with the unrecognized-version error
\* that carries the version of the field, and returns no Index
C21_VersionRejected ==
    (cout.fn = "parse_index" /\ cin.whole /\ U32(cin.version) # 2) =>
        /\ ~cout.r.ok
        /\ cout.r.err = "GitUnrecognizedIndexVersion"
        /\ cout.r.val = U32(cin.version)

\* the bytes of a file start with a valid header and fewer than 20 bytes
\* follow the entries that parse
ShortTail(bytes) ==
    /\ Len(bytes) >= 12
    /\ Take(bytes, 8) = STR_DIRC \o <<0, 0, 0, 2>>
    /\ Len(many0_index_entry(Drop(bytes, 12), <<>>).rest) < ShaLen

\* C25 as stated: parse_git_index returns an Index or an error value for
\* every input and never aborts; a valid header with fewer than 20 bytes left
\* after the entries gives an error value
C25_NeverAborts ==
    cout.fn = "parse_index" =>
        /\ cout.r.err # "PANIC"
        /\ (cout.codec = "object_parsers.rs" /\ ShortTail(cin.bytes)) =>
              (~cout.r.ok /\ cout.r.err # "PANIC")

\* C30 as stated: for a well-formed index file parse_git_index returns as many
\* entries as the count field of the header declares, none of them read from
\* the extension region or the checksum
C30_CountHonoured ==
    (cout.fn = "index_round_trip" /\ cout.codec = "index.rs") =>
        /\ cout.r.ok
        /\ Len(cout.r.val.entries) = cin.count
        /\ cout.r.val.entries = cin.entries

-----------------------------------------------------------------------------
(* Object writes that fail part-way                                        *)

\* the lengths at which the write of an object file can stop short: nothing
\* written after File::create, or half of the compressed bytes
PartialLens(stream) == {0, Len(stream) \div 2}

\* write_object with a store that gets as far as File::create and fails or is
\* killed inside encoder.write_all / finish: the object directory and the
\* object file exist, the file holds the first k bytes of the stream
write_object_interrupted(obj, k, objs, dirs) ==
    [r |-> Err("IO"),
     objdirs |-> dirs \cup {ObjPath(ToHex(Sha1(ObjAsBytes(obj))))[1]},
     objects |-> FileCreate(ObjPath(ToHex(Sha1(ObjAsBytes(obj)))),
                            Take(ZlibEncode(ObjAsBytes(obj)), k), objs)]

\* hash_object with a store whose write_object stops short; it can only
\* happen where write_object gets to the write: marker present, no object
\* file at the path yet
HashObjectInterrupted(f) ==
    /\ worktree[f].exists
    /\ git_check_for_rusty_git_allowed(WorktreeListing).ok
    /\ ~ObjPathExists(ObjPath(ToHex(Sha1(ObjAsBytes(BlobNew(worktree[f].bytes))))), objects)
    /\ \E k \in PartialLens(ZlibEncode(ObjAsBytes(BlobNew(worktree[f].bytes)))) :
          /\ objects' = write_object_interrupted(BlobNew(worktree[f].bytes), k,
                                                 objects, objdirs).objects
          /\ objdirs' = write_object_interrupted(BlobNew(worktree[f].bytes), k,
                                                 objects, objdirs).objdirs
    /\ ret' = Returned("hash_object", f, marker, TRUE, Err("IO"), "interrupted", <<>>)
    /\ UNCHANGED <<marker, worktree, index, refs, clock, ncommits, codecVars>>

NextRetry ==
    \/ \E w \in WorktreeWrites : WriteFile(w[1], w[2])
    \/ RemoveMarker
    \/ CreateMarker
    \/ \E f \in FileNames, with_repo \in BOOLEAN : HashObject(f, with_repo)
    \/ \E f \in FileNames : HashObjectInterrupted(f)

SpecRetry == Init /\ [][NextRetry]_vars

\* C22 as stated: a write_object with a store that returns Ok, also after an
\* earlier attempt for the same object stopped between creating the object
\* file and completing its content, leaves a complete object file at the hash:
\* read_object decodes it to the object written
C22_RetrySafe ==
    (ret.op = "hash_object" /\ ret.store /\ ret.r.ok) =>
        read_object(ret.r.val, objects) = Ok(BlobNew(worktree[ret.arg].bytes))

-----------------------------------------------------------------------------
(* add and commit of files in a sub-directory of the worktree              *)

STR_src_main_rs == STR_src \o <<SLASH>> \o STR_main_rs

\* the paths add is called with: a file of the worktree root and a file of
\* the directory src
PathNames == {<<97>>, <<98>>, STR_src_main_rs}

\* a repository as init leaves it, in a worktree that holds the files
InitPaths ==
    /\ InitIdle
    /\ marker = TRUE
    /\ worktree = [f \in PathNames |-> File(f, 1)]
    /\ objects = <<>>
    /\ objdirs = {}
    /\ index = NoFile
    /\ refs = [p \in RefPaths |-> IF p = STR_HEAD THEN File(STR_ref \o STR_master \o <<LF>>, 0)
                                    ELSE NoFile]
    /\ clock = 1
    /\ ncommits = 0
    /\ ret = Returned("init", <<>>, TRUE, TRUE, Ok(<<>>), "none", <<>>)

NextPaths ==
    \/ RemoveMarker
    \/ CreateMarker
    \/ \E f \in PathNames : Add(f)
    \/ \E msg \in CommitMessages : Commit(msg)

SpecPaths == InitPaths /\ [][NextPaths]_vars

\* the hashes of the stored objects whose envelope begins with the word tree
StoredTrees ==
    {q[1] \o q[2] : q \in {p \in DOMAIN objects :
                              StartsWith(ZlibDecode(objects[p].bytes).val, STR_tree)}}

\* C23 as stated: every leaf of every tree object that commit has written has
\* a path of one component, with no separator, whatever the names of the
\* index entries
C23_SingleComponentLeaves ==
    \A hash \in StoredTrees :
        \A i \in 1..Len(StoredTreeLeaves(hash, objects)) :
            \A j \in 1..Len(StoredTreeLeaves(hash, objects)[i].path) :
                StoredTreeLeaves(hash, objects)[i].path[j] # SLASH

-----------------------------------------------------------------------------
(* resolve_ref call by call                                                *)

is_indirect_never(data) == FALSE

\* refs.rs: "ref: " == &data[..5]
is_indirect(data) == Take(data, 5) = STR_ref

\* one more nested call, counted up to MaxDepth
Deeper(depth) == IF depth < MaxDepth THEN depth + 1 ELSE depth

\* a call of resolve_ref that has not returned: the path it was given
Calling(ref_path, depth) == [pc |-> "call", at |-> ref_path, depth |-> depth, r |-> Ok(<<>>)]

\* the outermost call has returned r
HasReturned(r, depth) == [pc |-> "returned", at |-> <<>>, depth |-> depth, r |-> r]

Panicked(depth) == [pc |-> "panicked", at |-> <<>>, depth |-> depth, r |-> Err("PANIC")]

\* the body of resolve_ref for the call in progress: read the file, and
\* either call resolve_ref on the path after "ref: " (its result is returned
\* as it is) or return the trimmed contents
resolve_ref_body(call, rs) ==
    IF call.at \notin DOMAIN rs \/ ~rs[call.at].exists THEN HasReturned(Err("IO"), call.depth)
    ELSE IF ~IsUtf8(rs[call.at].bytes) THEN HasReturned(Err("IO"), call.depth)
    ELSE IF Len(rs[call.at].bytes) < 5
            \/ (Len(rs[call.at].bytes) > 5 /\ rs[call.at].bytes[6] >= 128
                /\ rs[call.at].bytes[6] < 192)
    THEN Panicked(call.depth)
    ELSE IF is_indirect(rs[call.at].bytes)
    THEN Calling(Trim(Drop(rs[call.at].bytes, 5)), Deeper(call.depth))
    ELSE HasReturned(Ok(Trim(rs[call.at].bytes)), call.depth)

\* resolve_ref runs the body of the call in progress
ResolveRefCall ==
    /\ cout.pc = "call"
    /\ cout' = resolve_ref_body(cout, refs)
    /\ UNCHANGED <<cin, repoVars>>

InitRefCalls ==
    /\ marker = TRUE
    /\ worktree = [f \in FileNames |-> NoFile]
    /\ objects = <<>>
    /\ objdirs = {}
    /\ index = NoFile
    /\ refs \in [RefNames -> RefFiles]
    /\ clock = 0
    /\ ncommits = 0
    /\ ret = Returned("init", <<>>, TRUE, TRUE, Ok(<<>>), "none", <<>>)
    /\ cin \in [fn : {"resolve_ref"}, ref_path : RefNames]
    /\ cout = Calling(cin.ref_path, 0)

NextRefCalls == ResolveRefCall

\* a call in progress goes on running
SpecRefCalls == InitRefCalls /\ [][NextRefCalls]_vars /\ WF_vars(NextRefCalls)

\* the ref file holds an indirection to the given ref
PointsTo(from, to) ==
    refs[from].exists /\ refs[from].bytes = STR_ref \o to \o <<LF>>

\* the ref is the head of an acyclic chain of indirections that ends in a
\* file holding a hash
AcyclicFrom(ref_path) ==
    \E k \in 0..(Cardinality(RefNames) - 1) : \E c \in Chains(k) : c[1] = ref_path

\* the chain of indirections from the ref comes back to a ref of the chain
CyclicFrom(ref_path) ==
    \E k \in 1..Cardinality(RefNames) : \E c \in [1..k -> RefNames] :
        /\ c[1] = ref_path
        /\ \A i \in 1..(k - 1) : PointsTo(c[i], c[i + 1])
        /\ \E j \in 1..k : PointsTo(c[k], c[j])

\* C24: resolve_ref on the head of a finite acyclic chain whose ref files all
\* exist returns a hash; on a cyclic chain it never returns: it goes on
\* calling itself, and no depth bound or cycle check stops it
C24_RefTermination ==
    /\ AcyclicFrom(cin.ref_path) ~> (cout.pc = "returned" /\ cout.r = Ok(TestSha))
    /\ [](CyclicFrom(cin.ref_path) => cout.pc = "call")

\* C24 witness: on a cyclic chain resolve_ref is still calling itself after
\* more nested calls than there are ref files
C24_Witness ==
    /\ CyclicFrom(cin.ref_path)
    /\ cout.pc = "call"
    /\ cout.depth > Cardinality(RefNames)

-----------------------------------------------------------------------------
(* the index against the object database                                   *)

\* the entries of the index file as add reads them
IndexEntries == objp_parse_git_index(index.bytes).val.entries

\* the 20-byte hash names an object file that decodes as a blob with that hash
IsStoredBlob(sha) ==
    With(read_object(ToHex(sha), objects), LAMBDA o :
        /\ o.ok
        /\ o.val.typ = "blob"
        /\ Sha1(ObjAsBytes(o.val)) = sha)

\* C28: after any sequence of adds, the hash of every index entry is the hash
\* of a blob that is present in the object database
C28_IndexBlobsStored ==
    index.exists =>
        /\ objp_parse_git_index(index.bytes).ok
        /\ \A i \in 1..Len(IndexEntries) : IsStoredBlob(IndexEntries[i].sha)

\* C28 witness: an add has written the index, and the file of one of its
\* entries has other bytes in the worktree by now
C28_Witness ==
    /\ index.exists
    /\ \E i \in 1..Len(IndexEntries) :
           /\ worktree[IndexEntries[i].name].exists
           /\ Sha1(ObjAsBytes(BlobNew(worktree[IndexEntries[i].name].bytes)))
                  # IndexEntries[i].sha

-----------------------------------------------------------------------------
(* the sections of a status report                                         *)

\* the paths that the lines of one section of a report are about
SectionPaths(section) == {p[1] : p \in DOMAIN section}

\* C29: in every status report the paths listed as untracked and the paths
\* listed as changed but not staged are disjoint sets; a path that has an index
\* entry is never reported untracked, also when the modification time of the
\* file differs from the time of its index entry
C29_UntrackedDisjoint ==
    (ret.op = "status" /\ ret.note = "none" /\ ret.r.ok) =>
        /\ SectionPaths(ret.r.val.not_staged) \cap SectionPaths(ret.r.val.not_tracked) = {}
        /\ \A i \in 1..Len(parse_git_index(index.bytes).val.entries) :
               parse_git_index(index.bytes).val.entries[i].name
                   \notin SectionPaths(ret.r.val.not_tracked)

-----------------------------------------------------------------------------
(* the branch ref and the commit objects                                   *)

\* the ref file that HEAD names
HeadRef(rs) == rs[parse_git_head(rs[STR_HEAD].bytes).val]

\* the object that the hash in the ref file names, read from the database
RefObject(rs, objs) == read_object(HeadRef(rs).bytes, objs)

\* the commit object has the given parent, or none when the ref did not exist
ParentIs(commit, old_ref) ==
    IF old_ref.exists
    THEN STR_parent \in DOMAIN commit.kvs /\ commit.kvs[STR_parent] = old_ref.bytes
    ELSE STR_parent \notin DOMAIN commit.kvs

\* after a step the ref that HEAD names, if it exists, holds the hash of a
\* commit object of the database; when the step is a commit that wrote the
\* ref, the parent of that commit is the hash the ref held before the step
RefKeepsHistory ==
    HeadRef(refs').exists =>
        /\ RefObject(refs', objects').ok
        /\ RefObject(refs', objects').val.typ = "commit"
        /\ (ncommits' # ncommits \/ refs' # refs) =>
               /\ ret'.op = "commit"
               /\ ParentIs(RefObject(refs', objects').val, HeadRef(refs))

\* C26: after any sequence of add and commit the branch ref named by HEAD, if
\* it exists, holds the hash of a commit object that is present in the object
\* database, and the parent of that commit is the hash the ref held just
\* before the commit, or there is no parent if the ref did not exist
C26_RefHistory == [][RefKeepsHistory]_vars

\* C26 witness: a second commit has returned and the commit that the ref names
\* has a parent
C26_Witness ==
    /\ ret.op = "commit" /\ ret.r.ok /\ ret.note = "none"
    /\ ncommits = 2
    /\ HeadRef(refs).exists
    /\ RefObject(refs, objects).ok
    /\ STR_parent \in DOMAIN RefObject(refs, objects).val.kvs

-----------------------------------------------------------------------------
(* commit with nothing staged                                              *)

\* the objects of the given type among the objects a command has written
WrittenOf(written, typ) ==
    {i \in 1..Len(written) : written[i][1].typ = typ}

\* a commit step: when every (path, hash) pair of the index is in the tree of
\* the commit that HEAD names, no object is written and the refs stay as they
\* are; and no tree that the step writes is without leaves
NothingStagedStep ==
    (ret'.op = "commit" /\ index.exists) =>
        /\ IndexPairs \subseteq HeadCommitted =>
               /\ objects' = objects
               /\ refs' = refs
               /\ ret'.written = <<>>
        /\ \A i \in WrittenOf(ret'.written, "tree") : ret'.written[i][1].contents # <<>>

\* C27: commit is a no-op when nothing is staged: if every (path, hash) pair
\* of the index is already in the committed tree of HEAD, commit writes no tree
\* and no commit object and leaves the branch ref unchanged; commit never
\* writes a tree with zero leaves
C27_NothingStaged == [][NothingStagedStep]_vars

====
